---- MODULE Spec2Model ----
(***************************************************************************)
(* Packet handlers of server/Commands.py and the position tracker of       *)
(* server/position_tracker.py as a state machine.                          *)
(*                                                                         *)
(* The state is one session: the in-memory save (session.player_data), the *)
(* active character name, the save file last written by a handler, and the *)
(* other live sessions a look change is broadcast to.  Every handler is    *)
(* one action: it decodes its packet, scans the save for the active        *)
(* character, mutates it, writes the save file and sends its replies.      *)
(*                                                                         *)
(* Python values are kept as they are in the save document: lists are      *)
(* sequences of records.  A key that a handler reads through               *)
(* get(key, default) or setdefault(key, default) is held with that default *)
(* when it is absent from the document.  dict.copy() is shallow: the rune  *)
(* list of a copied gear is the same list object, so every gear carries    *)
(* the identity of its rune list (rid) and an in-place write to a rune     *)
(* list reaches every gear that shares it.                                 *)
(*                                                                         *)
(* SpecForge, SpecEquip, SpecRune, SpecCharms, SpecGearSets, SpecLook,     *)
(* SpecMastery, SpecSkills, SpecReply and Spec run the handlers one packet *)
(* at a time from the saves each family needs.                             *)
(* SpecStore runs the handlers of two connections of one user step by step *)
(* (lookup and mutation, open, dump, close, reply), with the save file     *)
(* written chunk by chunk and a process that may stop between two steps.   *)
(* SpecCodec writes and reads back payloads of the bit codec.              *)
(* SpecLevels asks is_mission_level about every name of the level table,   *)
(* and SpecTracker calls the position tracker on one session: positions    *)
(* are saved before a mission, updated, restored and cleared while the     *)
(* session moves between levels.  Coordinates are held in hundredths and   *)
(* a timestamp is the number of the call that took it.                     *)
(* SpecLoggers runs the callers of start_position_logging and             *)
(* stop_position_logging together with the logger threads, one step of one *)
(* of them at a time.                                                      *)
(***************************************************************************)
EXTENDS Integers, Sequences, FiniteSets, TLC

VARIABLES
    characters,         \* session.player_data["characters"]
    current_character,  \* session.current_character
    current_level,      \* session.current_level
    peers,              \* all_sessions
    disk,               \* the document last written to saves/{user_id}.json
    hist,               \* one record per handled packet, oldest first
    budget,             \* packets the session still receives
    file,               \* the content of saves/{user_id}.json, chunk by chunk
    conns,              \* the connections of one user whose handlers run step by step
    session,            \* the session the position tracker is called with
    mission_positions,  \* PositionTracker.mission_positions
    position_file,      \* the content of saves/position_data.json
    active_sessions,    \* PositionTracker.active_sessions, by its keys
    position_loggers,   \* PositionTracker.position_loggers: user id -> thread
    threads,            \* the logger threads ever started, each with its position
    starting            \* user ids whose start_position_logging call is under way

vars == <<characters, current_character, current_level, peers, disk, hist, budget,
          file, conns, session, mission_positions, position_file,
          active_sessions, position_loggers, threads, starting>>

\* the variables of the position loggers
logger_vars == <<active_sessions, position_loggers, threads, starting>>

\* PositionTracker.__init__ leaves no session registered and no thread started
NoLoggers ==
    /\ active_sessions = {}
    /\ position_loggers = <<>>
    /\ threads = <<>>
    /\ starting = {}

----------------------------------------------------------------------------
(* Bounds of the model *)

\* packets handled in one behaviour of the forge specification
ForgeSteps == 3

\* packets handled in one behaviour of the equipment specification
EquipSteps == 2

\* packets handled in one behaviour of the rune specification
RuneSteps == 2

\* packets handled in one behaviour of the specification of all handlers
Steps == 2

\* packets handled by the two connections of the save-file specification
StoreSteps == 2

\* packets handled in one behaviour of the look specification
LookSteps == 2

\* packets handled in one behaviour of the mastery specification
MasterySteps == 2

\* packets handled in one behaviour of the talent and hotbar specification
SkillSteps == 2

\* packets handled in one behaviour of the specification of replies
ReplySteps == 1

\* calls of the position tracker per behaviour of SpecTracker
TrackerSteps == 3

\* calls of start_position_logging and stop_position_logging per behaviour of
\* SpecLoggers
LoggerSteps == 3

\* packets handled in one behaviour of the specification of charms
CharmSteps == 2

\* packets handled in one behaviour of the gear-set specification
GearSetSteps == 2

\* widest fixed-width field written with every value
MaxWidth == 3

\* largest entity id written
MaxVarUint == 20

\* longest string written, in code points
MaxStrLen == 2

\* GearType.GEARTYPE_BITSTOSEND, the bits of a gear id on the wire, scaled
\* down to the gear ids of the model
GEARTYPE_BITSTOSEND == 3

----------------------------------------------------------------------------
(* Constants of the protocol (constants.py) *)

\* EntType.MAX_SLOTS: one more than the number of gear slots
MAX_SLOTS == 7

\* GearType.const_348: bits of a gear-set index
const_348 == 3

\* class_118.const_43: nodes of a mastery tree
const_43 == 27

\* class_111.const_286: forge status "in progress"
const_286 == 1

\* class_111.const_264: forge status "completed"
const_264 == 2

\* class_3.var_1415, var_2082, var_1374, var_1462: the consumable of each flag
consumable_ids == <<101, 102, 103, 104>>

\* Python's None
None == -1

----------------------------------------------------------------------------
(* Python helpers *)

Max(a, b) == IF a >= b THEN a ELSE b

Min(a, b) == IF a <= b THEN a ELSE b

Range(s) == {s[i] : i \in 1..Len(s)}

\* index of the first element of s satisfying Test, 0 when there is none
FirstIdx(s, Test(_)) ==
    IF \E i \in 1..Len(s) : Test(s[i])
    THEN CHOOSE i \in 1..Len(s) : Test(s[i]) /\ \A j \in 1..(i - 1) : ~Test(s[j])
    ELSE 0

\* list.remove of the element at index i
RemoveAt(s, i) == [j \in 1..(Len(s) - 1) |-> IF j < i THEN s[j] ELSE s[j + 1]]

\* for char in chars: if char.get("name") == session.current_character
FindChar(chars, name) ==
    LET IsNamed(c) == c.name = name
    IN  FirstIdx(chars, IsNamed)

----------------------------------------------------------------------------
(* The save document *)

\* a gear as json.dump writes it: the rune list by value
GearVal(g) ==
    [gearID |-> g.gearID, tier |-> g.tier, runes |-> g.runes, colors |-> g.colors]

GearVals(gs) == [i \in 1..Len(gs) |-> GearVal(gs[i])]

CharDoc(c) ==
    [c EXCEPT !.equippedGears = GearVals(c.equippedGears),
              !.inventoryGears = GearVals(c.inventoryGears)]

\* json.dump(session.player_data, f)
Doc(chars) == [i \in 1..Len(chars) |-> CharDoc(chars[i])]

\* the magicForge dict with no session
IdleForge ==
    [hasSession |-> FALSE, primary |-> 0, secondary |-> 0, duration |-> 0,
     status |-> 0, var_8 |-> 0, usedlist |-> 0, var_2675 |-> 0, var_2316 |-> 0,
     var_2434 |-> FALSE]

\* a character with every list empty
BaseChar ==
    [name |-> "hero",
     equippedGears |-> <<>>, inventoryGears |-> <<>>, gearSets |-> <<>>,
     charms |-> <<>>, materials |-> <<>>, consumables |-> <<>>,
     magicForge |-> IdleForge, mammothIdols |-> 0,
     craftTalentPoints |-> <<>>, activeAbilities |-> <<>>,
     MasterClass |-> 1, Mastery |-> <<>>,
     towerResearch |-> [masterClassID |-> 1, endTime |-> 5],
     headSet |-> "h0", hairSet |-> "h0", mouthSet |-> "h0", faceSet |-> "h0",
     gender |-> "h0", hairColor |-> 0, skinColor |-> 0,
     shirtColor |-> None, pantColor |-> None]

----------------------------------------------------------------------------
(* What a handler does besides changing the save: its writes and sends *)

\* with open(save_path, "w") as f: json.dump(pd, f)
\* json.dump(pd, f, indent=2) writes the document piece by piece: the opening
\* bracket, one piece per character, the closing bracket
Chunks(doc) ==
    <<[kind |-> "begin"]>>
        \o [i \in 1..Len(doc) |-> [kind |-> "char", value |-> doc[i]]]
        \o <<[kind |-> "end"]>>

WriteEv(chars) == [kind |-> "write", to |-> "disk", type |-> 0, body |-> Doc(chars)]

\* conn.sendall(struct.pack(">HH", type, len(payload)) + payload)
SendEv(to, type, body) == [kind |-> "send", to |-> to, type |-> type, body |-> body]

\* the result of a handler: the save, its events in order, and whether it
\* ended by an exception
Result(chars, events, raised) == [chars |-> chars, events |-> events, raised |-> raised]

Writes(events) ==
    LET IsWrite(e) == e.kind = "write"
    IN  SelectSeq(events, IsWrite)

Sends(events) ==
    LET IsSend(e) == e.kind = "send"
    IN  SelectSeq(events, IsSend)

----------------------------------------------------------------------------
(* Magic forge *)

\* materials_used[mat_id] = count, in packet order: a dict keeps the place
\* of a key's first insertion and the value of its last
DictFromPairs(pairs) ==
    LET RECURSIVE Build(_, _)
        Build(i, d) ==
            IF i > Len(pairs) THEN d
            ELSE LET IsKey(e) == e.id = pairs[i].id
                     k == FirstIdx(d, IsKey)
                 IN  Build(i + 1, IF k = 0 THEN Append(d, pairs[i])
                                  ELSE [d EXCEPT ![k].count = pairs[i].count])
    IN  Build(1, <<>>)

\* DeductMaterials without the clamp at zero
DeductMaterials_NoClamp(mats, used) ==
    LET RECURSIVE Go(_, _)
        Go(i, m) ==
            IF i > Len(used) THEN m
            ELSE LET IsMat(e) == e.materialID = used[i].id
                     k == FirstIdx(m, IsMat)
                 IN  Go(i + 1,
                        IF k = 0
                        THEN Append(m, [materialID |-> used[i].id, count |-> 0])
                        ELSE [m EXCEPT ![k].count = m[k].count - used[i].count])
    IN  Go(1, mats)

\* step 5 of start_forge_packet: deduct the materials
DeductMaterials(mats, used) ==
    LET RECURSIVE Go(_, _)
        Go(i, m) ==
            IF i > Len(used) THEN m
            ELSE LET IsMat(e) == e.materialID = used[i].id
                     k == FirstIdx(m, IsMat)
                 IN  Go(i + 1,
                        IF k = 0
                        THEN Append(m, [materialID |-> used[i].id, count |-> 0])
                        ELSE [m EXCEPT ![k].count = Max(0, m[k].count - used[i].count)])
    IN  Go(1, mats)

\* DeductConsumables that takes a unit even when none is left
DeductConsumables_NoClamp(cons, flags) ==
    LET RECURSIVE Go(_, _)
        Go(i, c) ==
            IF i > Min(Len(flags), Len(consumable_ids)) THEN c
            ELSE IF flags[i] = 0 THEN Go(i + 1, c)
            ELSE LET IsCons(e) == e.consumableID = consumable_ids[i]
                     k == FirstIdx(c, IsCons)
                 IN  Go(i + 1,
                        IF k = 0
                        THEN Append(c, [consumableID |-> consumable_ids[i], count |-> 0])
                        ELSE [c EXCEPT ![k].count = c[k].count - 1])
    IN  Go(1, cons)

\* step 6 of start_forge_packet: deduct the flagged consumables
DeductConsumables(cons, flags) ==
    LET RECURSIVE Go(_, _)
        Go(i, c) ==
            IF i > Min(Len(flags), Len(consumable_ids)) THEN c
            ELSE IF flags[i] = 0 THEN Go(i + 1, c)
            ELSE LET IsCons(e) == e.consumableID = consumable_ids[i]
                     k == FirstIdx(c, IsCons)
                 IN  Go(i + 1,
                        IF k = 0
                        THEN Append(c, [consumableID |-> consumable_ids[i], count |-> 0])
                        ELSE [c EXCEPT ![k].count = Max(0, c[k].count - 1)])
    IN  Go(1, cons)

\* StartedForge that leaves the status as it was
StartedForge_NoStatus(mf, primary) ==
    [mf EXCEPT !.hasSession = TRUE, !.primary = primary,
               !.duration = 60000, !.var_8 = 0, !.usedlist = 0, !.var_2675 = 0,
               !.var_2316 = 0, !.var_2434 = TRUE]

\* step 7 of start_forge_packet: mf.update({...})
StartedForge(mf, primary) ==
    [mf EXCEPT !.hasSession = TRUE, !.primary = primary, !.status = const_286,
               !.duration = 60000, !.var_8 = 0, !.usedlist = 0, !.var_2675 = 0,
               !.var_2316 = 0, !.var_2434 = TRUE]

\* start_forge_packet(session, data), data decoded to primary, the material
\* pairs and the four consumable flags
start_forge_packet(chars, name, primary, pairs, flags) ==
    LET ci == FindChar(chars, name)
    IN  IF ci = 0 THEN Result(chars, <<>>, FALSE)
        ELSE LET char == chars[ci]
                 new == [char EXCEPT
                            !.materials = DeductMaterials(char.materials, DictFromPairs(pairs)),
                            !.consumables = DeductConsumables(char.consumables, flags),
                            !.magicForge = StartedForge(char.magicForge, primary)]
                 out == [chars EXCEPT ![ci] = new]
             IN  Result(out, <<WriteEv(out)>>, FALSE)

\* magic_forge_packet that wants more idols than it spends
magic_forge_packet_Strict(chars, name, idols_to_spend) ==
    LET ci == FindChar(chars, name)
    IN  IF ci = 0 THEN Result(chars, <<>>, FALSE)
        ELSE LET char == chars[ci]
                 mf == char.magicForge
                 available == char.mammothIdols
             IN  IF mf.hasSession /\ available > idols_to_spend
                 THEN LET new == [char EXCEPT
                                     !.mammothIdols = available - idols_to_spend,
                                     !.magicForge.status = const_264,
                                     !.magicForge.duration = 0]
                          out == [chars EXCEPT ![ci] = new]
                      IN  Result(out,
                                 <<WriteEv(out),
                                   SendEv("self", 205,
                                          <<mf.primary, mf.var_2675, mf.var_2316, 0>>)>>,
                                 FALSE)
                 ELSE Result(chars, <<>>, FALSE)

\* magic_forge_packet(session, data): speed the session up for idols
magic_forge_packet(chars, name, idols_to_spend) ==
    LET ci == FindChar(chars, name)
    IN  IF ci = 0 THEN Result(chars, <<>>, FALSE)
        ELSE LET char == chars[ci]
                 mf == char.magicForge
                 available == char.mammothIdols
             IN  IF mf.hasSession /\ available >= idols_to_spend
                 THEN LET new == [char EXCEPT
                                     !.mammothIdols = available - idols_to_spend,
                                     !.magicForge.status = const_264,
                                     !.magicForge.duration = 0]
                          out == [chars EXCEPT ![ci] = new]
                      IN  Result(out,
                                 <<WriteEv(out),
                                   SendEv("self", 205,
                                          <<mf.primary, mf.var_2675, mf.var_2316, 0>>)>>,
                                 FALSE)
                 ELSE Result(chars, <<>>, FALSE)

\* GrantCharm that never creates a missing entry
GrantCharm_NoCreate(charms, charm_id) ==
    LET IsCharm(e) == e.charmID = charm_id
        k == FirstIdx(charms, IsCharm)
    IN  IF k = 0 THEN charms
        ELSE [charms EXCEPT ![k].count = charms[k].count + 1]

\* step 2 of collect_forge_charm: find or create the charm entry
GrantCharm(charms, charm_id) ==
    LET IsCharm(e) == e.charmID = charm_id
        k == FirstIdx(charms, IsCharm)
    IN  IF k = 0 THEN Append(charms, [charmID |-> charm_id, count |-> 1])
        ELSE [charms EXCEPT ![k].count = charms[k].count + 1]

\* CollectedForge that leaves the status as it was
CollectedForge_KeepsStatus(mf) ==
    [mf EXCEPT !.hasSession = FALSE, !.primary = 0, !.secondary = 0,
               !.duration = 0, !.usedlist = 0, !.var_2675 = 0, !.var_2316 = 0,
               !.var_2434 = FALSE]

\* step 3 of collect_forge_charm: clear the session
CollectedForge(mf) ==
    [mf EXCEPT !.hasSession = FALSE, !.primary = 0, !.secondary = 0,
               !.duration = 0, !.usedlist = 0, !.var_2675 = 0, !.var_2316 = 0,
               !.var_2434 = FALSE, !.status = 0]

\* collect_forge_charm that acknowledges before it saves
collect_forge_charm_AckFirst(chars, name) ==
    LET ci == FindChar(chars, name)
    IN  IF ci = 0 THEN Result(chars, <<>>, FALSE)
        ELSE LET char == chars[ci]
                 mf == char.magicForge
             IN  IF ~mf.hasSession THEN Result(chars, <<>>, FALSE)
                 ELSE LET charm_id == mf.primary
                          new == [char EXCEPT
                                     !.charms = IF charm_id <= 0 THEN char.charms
                                                ELSE GrantCharm(char.charms, charm_id),
                                     !.magicForge = CollectedForge(mf)]
                          out == [chars EXCEPT ![ci] = new]
                      IN  Result(out, <<SendEv("self", 227, <<>>), WriteEv(out)>>, FALSE)

\* collect_forge_charm(session, data)
collect_forge_charm(chars, name) ==
    LET ci == FindChar(chars, name)
    IN  IF ci = 0 THEN Result(chars, <<>>, FALSE)
        ELSE LET char == chars[ci]
                 mf == char.magicForge
             IN  IF ~mf.hasSession THEN Result(chars, <<>>, FALSE)
                 ELSE LET charm_id == mf.primary
                          new == [char EXCEPT
                                     !.charms = IF charm_id <= 0 THEN char.charms
                                                ELSE GrantCharm(char.charms, charm_id),
                                     !.magicForge = CollectedForge(mf)]
                          out == [chars EXCEPT ![ci] = new]
                      IN  Result(out, <<WriteEv(out), SendEv("self", 227, <<>>)>>, FALSE)

\* CancelledForge that forgets the primary id
CancelledForge_KeepsPrimary(mf) ==
    [mf EXCEPT !.hasSession = FALSE, !.status = 0, !.duration = 0,
               !.secondary = 0, !.var_8 = 0, !.usedlist = 0, !.var_2675 = 0,
               !.var_2316 = 0, !.var_2434 = FALSE]

\* step 2 of cancel_forge_packet: clear the session
CancelledForge(mf) ==
    [mf EXCEPT !.hasSession = FALSE, !.status = 0, !.duration = 0, !.primary = 0,
               !.secondary = 0, !.var_8 = 0, !.usedlist = 0, !.var_2675 = 0,
               !.var_2316 = 0, !.var_2434 = FALSE]

\* cancel_forge_packet(session, data)
cancel_forge_packet(chars, name) ==
    LET ci == FindChar(chars, name)
    IN  IF ci = 0 THEN Result(chars, <<>>, FALSE)
        ELSE LET out == [chars EXCEPT ![ci].magicForge = CancelledForge(chars[ci].magicForge)]
             IN  Result(out, <<WriteEv(out)>>, FALSE)

----------------------------------------------------------------------------
(* Bit-packed payloads (bitreader.py): a payload is a sequence of bits *)

RECURSIVE Pow2(_)
Pow2(n) == IF n = 0 THEN 1 ELSE 2 * Pow2(n - 1)

\* BitReader.remaining_bits() with the cursor at pos
RemainingBits(bits, pos) == Len(bits) - pos

\* BitReader.read_bits(n) with the cursor at pos: the next n bits, most
\* significant first
RECURSIVE ReadBits(_, _, _)
ReadBits(bits, pos, n) ==
    IF n = 0 THEN 0
    ELSE 2 * ReadBits(bits, pos, n - 1) + bits[pos + n]

\* BitBuffer.write_bits(v, n): the n low bits of v, most significant first
WriteBits(v, n) == [i \in 1..n |-> (v \div Pow2(n - i)) % 2]

\* BitBuffer.to_bytes(): zero bits up to the next whole byte
PadToByte(bits) == bits \o [i \in 1..((8 - (Len(bits) % 8)) % 8) |-> 0]

RECURSIVE Concat(_)
Concat(ss) == IF ss = <<>> THEN <<>> ELSE Head(ss) \o Concat(Tail(ss))

\* bits of a group of a variable-width unsigned integer
VarGroupBits == 2

\* BitBuffer.write_method_4(v): groups of VarGroupBits bits, lowest first,
\* each led by a flag bit that says whether another group follows
RECURSIVE write_method_4(_)
write_method_4(v) ==
    IF v < Pow2(VarGroupBits) THEN <<0>> \o WriteBits(v, VarGroupBits)
    ELSE <<1>> \o WriteBits(v % Pow2(VarGroupBits), VarGroupBits)
              \o write_method_4(v \div Pow2(VarGroupBits))

\* BitReader.read_method_4() with the cursor at pos: the value and the cursor
\* after it
RECURSIVE read_method_4(_, _)
read_method_4(bits, pos) ==
    LET group == ReadBits(bits, pos + 1, VarGroupBits)
    IN  IF ReadBits(bits, pos, 1) = 0
        THEN [value |-> group, next |-> pos + 1 + VarGroupBits]
        ELSE LET rest == read_method_4(bits, pos + 1 + VarGroupBits)
             IN  [value |-> group + Pow2(VarGroupBits) * rest.value, next |-> rest.next]

----------------------------------------------------------------------------
(* Gear *)

\* {"gearID": g, "tier": 0, "runes": [0, 0, 0], "colors": [0, 0]} with a new
\* rune list rid
DefaultGear(g, rid) ==
    [gearID |-> g, tier |-> 0, runes |-> <<0, 0, 0>>, colors |-> <<0, 0>>, rid |-> rid]

\* the rune lists alive in a character's gear
Rids(eq, inv) == {eq[i].rid : i \in 1..Len(eq)} \cup {inv[i].rid : i \in 1..Len(inv)}

\* the identity of a list that [0, 0, 0] creates
FreshRid(eq, inv) ==
    CHOOSE r \in 1..(Len(eq) + Len(inv) + 1) :
        /\ r \notin Rids(eq, inv)
        /\ \A q \in 1..(r - 1) : q \in Rids(eq, inv)

\* while len(eq) < n: eq.append({... default gear ...})
RECURSIVE PadEq(_, _, _)
PadEq(eq, inv, n) ==
    IF Len(eq) >= n THEN eq
    ELSE PadEq(Append(eq, DefaultGear(0, FreshRid(eq, inv))), inv, n)

\* if len(eq) > n: eq[:] = eq[:n]
TruncEq(eq, n) == IF Len(eq) > n THEN SubSeq(eq, 1, n) ELSE eq

\* the place of Python index i in a list of length n, 0 for an IndexError
PyIndex(i, n) ==
    IF 0 <= i /\ i < n THEN i + 1
    ELSE IF i < 0 /\ -n <= i THEN n + i + 1
    ELSE 0

\* for item in inv: if item.get("gearID") == gear_id
FindGear(inv, gear_id) ==
    LET HasId(item) == item.gearID = gear_id
    IN  FirstIdx(inv, HasId)

----------------------------------------------------------------------------
(* Equip one slot (0x31) *)

\* handle_gear_packet that copies the gear without its runes
handle_gear_packet_DropsRunes(chars, name, entity_id, prefix, slot1, gear_id) ==
    LET ci == FindChar(chars, name)
        slot == slot1 - 1
        echo == SendEv("self", 49, <<entity_id, prefix, slot1, gear_id>>)
    IN  IF ci = 0 THEN Result(chars, <<WriteEv(chars)>>, TRUE)
        ELSE LET char == chars[ci]
                 inv == char.inventoryGears
                 eq == PadEq(char.equippedGears, inv, 6)
                 k == FindGear(inv, gear_id)
                 gear_data == DefaultGear(gear_id, FreshRid(eq, inv))
                 at == PyIndex(slot, Len(eq))
                 padded == [chars EXCEPT ![ci].equippedGears = eq]
             IN  IF at = 0 THEN Result(padded, <<>>, TRUE)
                 ELSE LET out == [chars EXCEPT
                                     ![ci].equippedGears = [eq EXCEPT ![at] = gear_data],
                                     ![ci].inventoryGears =
                                         IF k = 0 THEN Append(inv, gear_data) ELSE inv]
                      IN  Result(out, <<WriteEv(out), echo>>, FALSE)

\* handle_gear_packet(session, raw_data), raw_data decoded to entity_id,
\* prefix, slot1 and gear_id
handle_gear_packet(chars, name, entity_id, prefix, slot1, gear_id) ==
    LET ci == FindChar(chars, name)
        slot == slot1 - 1
        echo == SendEv("self", 49, <<entity_id, prefix, slot1, gear_id>>)
    IN  IF ci = 0
        \* no character: the loop ends, the save is written, and the print of
        \* len(inv) raises NameError before the echo
        THEN Result(chars, <<WriteEv(chars)>>, TRUE)
        ELSE LET char == chars[ci]
                 inv == char.inventoryGears
                 eq == PadEq(char.equippedGears, inv, 6)
                 k == FindGear(inv, gear_id)
                 \* item.copy() shares the rune list of the inventory item
                 gear_data == IF k # 0 THEN inv[k]
                              ELSE DefaultGear(gear_id, FreshRid(eq, inv))
                 at == PyIndex(slot, Len(eq))
                 padded == [chars EXCEPT ![ci].equippedGears = eq]
             IN  IF at = 0
                 \* eq[slot] = gear_data raises IndexError
                 THEN Result(padded, <<>>, TRUE)
                 ELSE LET out == [chars EXCEPT
                                     ![ci].equippedGears = [eq EXCEPT ![at] = gear_data],
                                     ![ci].inventoryGears =
                                         IF k = 0 THEN Append(inv, gear_data) ELSE inv]
                      IN  Result(out, <<WriteEv(out), echo>>, FALSE)

----------------------------------------------------------------------------
(* Bulk equipment update (0x30) *)

\* "Process 6 slots": the changed flag of each slot and the gear id after a
\* set flag; ok is FALSE when the bits run out
ParseSlots(bits) ==
    LET RECURSIVE Go(_, _, _)
        Go(slot, pos, updates) ==
            IF slot >= MAX_SLOTS - 1 THEN [ok |-> TRUE, updates |-> updates]
            ELSE IF RemainingBits(bits, pos) < 1 THEN [ok |-> FALSE, updates |-> updates]
            ELSE IF ReadBits(bits, pos, 1) = 0 THEN Go(slot + 1, pos + 1, updates)
            ELSE IF RemainingBits(bits, pos + 1) < GEARTYPE_BITSTOSEND
                 THEN [ok |-> FALSE, updates |-> updates]
            ELSE Go(slot + 1, pos + 1 + GEARTYPE_BITSTOSEND,
                    Append(updates,
                           [slot |-> slot,
                            gear_id |-> ReadBits(bits, pos + 1, GEARTYPE_BITSTOSEND)]))
    IN  Go(0, 0, <<>>)

\* ApplyUpdates that leaves an unknown gear id in the slot
ApplyUpdates_KeepsUnknown(eq, inv, updates) ==
    LET RECURSIVE Go(_, _)
        Go(i, e) ==
            IF i > Len(updates) THEN e
            ELSE LET k == FindGear(inv, updates[i].gear_id)
                 IN  Go(i + 1,
                        [e EXCEPT ![updates[i].slot + 1] =
                            IF k # 0 THEN inv[k]
                            ELSE DefaultGear(updates[i].gear_id, FreshRid(e, inv))])
    IN  Go(1, eq)

\* "Apply updates": a copy of the inventory item, or the zero slot
ApplyUpdates(eq, inv, updates) ==
    LET RECURSIVE Go(_, _)
        Go(i, e) ==
            IF i > Len(updates) THEN e
            ELSE LET k == FindGear(inv, updates[i].gear_id)
                 IN  Go(i + 1,
                        [e EXCEPT ![updates[i].slot + 1] =
                            IF k # 0 THEN inv[k]
                            ELSE DefaultGear(0, FreshRid(e, inv))])
    IN  Go(1, eq)

\* handle_update_equipment that starts from six default slots
handle_update_equipment_FromBlank(chars, name, raw) ==
    LET ci == FindChar(chars, name)
    IN  IF ci = 0 THEN Result(chars, <<>>, FALSE)
        ELSE LET char == chars[ci]
                 inv == char.inventoryGears
                 eq == PadEq(<<>>, inv, MAX_SLOTS - 1)
                 parsed == ParseSlots(raw.bits)
                 padded == [chars EXCEPT ![ci].equippedGears = eq]
             IN  IF ~parsed.ok THEN Result(padded, <<>>, FALSE)
                 ELSE LET out == [chars EXCEPT ![ci].equippedGears =
                                                 ApplyUpdates(eq, inv, parsed.updates)]
                      IN  Result(out, <<WriteEv(out), SendEv("self", 48, raw)>>, FALSE)

\* handle_update_equipment(session, raw_data); raw is the packet, bits its
\* payload after the entity id
handle_update_equipment(chars, name, raw) ==
    LET ci == FindChar(chars, name)
    IN  IF ci = 0 THEN Result(chars, <<>>, FALSE)
        ELSE LET char == chars[ci]
                 inv == char.inventoryGears
                 eq == TruncEq(PadEq(char.equippedGears, inv, MAX_SLOTS - 1), MAX_SLOTS - 1)
                 parsed == ParseSlots(raw.bits)
                 padded == [chars EXCEPT ![ci].equippedGears = eq]
             IN  IF ~parsed.ok THEN Result(padded, <<>>, FALSE)
                 ELSE LET out == [chars EXCEPT ![ci].equippedGears =
                                                 ApplyUpdates(eq, inv, parsed.updates)]
                      IN  Result(out, <<WriteEv(out), SendEv("self", 48, raw)>>, FALSE)

----------------------------------------------------------------------------
(* Gear-sets (0xC7, 0xC8, 0xC6) *)

\* f"GearSet {slot_idx + 1}" as code points
GearSetName(slot_idx) == <<71, 101, 97, 114, 83, 101, 116, 32, 49 + slot_idx>>

\* the gearset that handle_create_gearset inserts
NewGearSet(slot_idx) ==
    [name |-> GearSetName(slot_idx), slots |-> [i \in 1..(MAX_SLOTS - 1) |-> 0]]

\* handle_create_gearset that inserts the set before the one at its index
handle_create_gearset_Inserts(chars, name, raw) ==
    LET ci == FindChar(chars, name)
        slot_idx == ReadBits(raw.bits, 0, const_348)
    IN  IF ci = 0 THEN Result(chars, <<>>, FALSE)
        ELSE LET gs == chars[ci].gearSets
                 out == [chars EXCEPT ![ci].gearSets =
                            IF slot_idx < Len(gs)
                            THEN SubSeq(gs, 1, slot_idx) \o <<NewGearSet(slot_idx)>>
                                 \o SubSeq(gs, slot_idx + 1, Len(gs))
                            ELSE Append(gs, NewGearSet(slot_idx))]
             IN  Result(out, <<WriteEv(out), SendEv("self", 199, raw)>>, FALSE)

\* handle_create_gearset that never replaces a set
handle_create_gearset_Appends(chars, name, raw) ==
    LET ci == FindChar(chars, name)
        slot_idx == ReadBits(raw.bits, 0, const_348)
    IN  IF ci = 0 THEN Result(chars, <<>>, FALSE)
        ELSE LET gs == chars[ci].gearSets
                 out == [chars EXCEPT ![ci].gearSets = Append(gs, NewGearSet(slot_idx))]
             IN  Result(out, <<WriteEv(out), SendEv("self", 199, raw)>>, FALSE)

\* handle_create_gearset(session, raw_data)
handle_create_gearset(chars, name, raw) ==
    LET ci == FindChar(chars, name)
        slot_idx == ReadBits(raw.bits, 0, const_348)
    IN  IF ci = 0 THEN Result(chars, <<>>, FALSE)
        ELSE LET gs == chars[ci].gearSets
                 out == [chars EXCEPT ![ci].gearSets =
                            IF slot_idx < Len(gs)
                            THEN [gs EXCEPT ![slot_idx + 1] = NewGearSet(slot_idx)]
                            ELSE Append(gs, NewGearSet(slot_idx))]
             IN  Result(out, <<WriteEv(out), SendEv("self", 199, raw)>>, FALSE)

\* bytes.decode('utf-8') of one- and two-byte sequences; ok is FALSE where
\* Python raises UnicodeDecodeError
RECURSIVE Utf8(_)
Utf8(bytes) ==
    IF bytes = <<>> THEN [ok |-> TRUE, text |-> <<>>]
    ELSE IF bytes[1] < 128
         THEN LET rest == Utf8(Tail(bytes))
              IN  [ok |-> rest.ok, text |-> <<bytes[1]>> \o rest.text]
    ELSE IF /\ bytes[1] >= 194 /\ bytes[1] < 224 /\ Len(bytes) >= 2
            /\ bytes[2] >= 128 /\ bytes[2] < 192
         THEN LET rest == Utf8(Tail(Tail(bytes)))
              IN  [ok |-> rest.ok,
                   text |-> <<(bytes[1] - 192) * 64 + (bytes[2] - 128)>> \o rest.text]
    ELSE [ok |-> FALSE, text |-> <<>>]

\* DecodeName that never tries UTF-8
DecodeName_Latin1(bytes) == bytes

\* try: decode('utf-8') except UnicodeDecodeError: decode('latin1')
DecodeName(bytes) == IF Utf8(bytes).ok THEN Utf8(bytes).text ELSE bytes

\* handle_name_gearset that creates the set it does not find
handle_name_gearset_Creates(chars, name, raw) ==
    LET bits == raw.bits
        slot_idx == ReadBits(bits, 0, 3)
        length == ReadBits(bits, 3, 16)
        result_bytes == [i \in 1..length |-> ReadBits(bits, 19 + 8 * (i - 1), 8)]
        ci == FindChar(chars, name)
    IN  IF length > RemainingBits(bits, 19) \div 8 THEN Result(chars, <<>>, FALSE)
        ELSE IF ci = 0 THEN Result(chars, <<>>, FALSE)
        ELSE LET gs == chars[ci].gearSets
                 out == [chars EXCEPT ![ci].gearSets =
                            IF slot_idx < Len(gs)
                            THEN [gs EXCEPT ![slot_idx + 1].name = DecodeName(result_bytes)]
                            ELSE Append(gs, [name |-> DecodeName(result_bytes),
                                             slots |-> NewGearSet(slot_idx).slots])]
             IN  Result(out, <<WriteEv(out), SendEv("self", 200, raw)>>, FALSE)

\* handle_name_gearset(session, raw_data)
handle_name_gearset(chars, name, raw) ==
    LET bits == raw.bits
        slot_idx == ReadBits(bits, 0, 3)
        length == ReadBits(bits, 3, 16)
        result_bytes == [i \in 1..length |-> ReadBits(bits, 19 + 8 * (i - 1), 8)]
        ci == FindChar(chars, name)
    IN  IF length > RemainingBits(bits, 19) \div 8 THEN Result(chars, <<>>, FALSE)
        ELSE IF ci = 0 THEN Result(chars, <<>>, FALSE)
        ELSE LET gs == chars[ci].gearSets
             IN  IF slot_idx < Len(gs)
                 THEN LET out == [chars EXCEPT ![ci].gearSets[slot_idx + 1].name =
                                                 DecodeName(result_bytes)]
                      IN  Result(out, <<WriteEv(out), SendEv("self", 200, raw)>>, FALSE)
                 ELSE Result(chars, <<>>, FALSE)

\* handle_apply_gearset without the check of the equipped list's length
handle_apply_gearset_AnyLength(chars, name, raw) ==
    LET ci == FindChar(chars, name)
        slot_idx == ReadBits(raw.bits, 0, const_348)
    IN  IF ci = 0 THEN Result(chars, <<>>, FALSE)
        ELSE LET gs == chars[ci].gearSets
                 eq == chars[ci].equippedGears
             IN  IF slot_idx >= Len(gs) THEN Result(chars, <<>>, FALSE)
                 ELSE LET gear_ids == [i \in 1..Len(eq) |-> eq[i].gearID]
                          out == [chars EXCEPT ![ci].gearSets[slot_idx + 1].slots = gear_ids]
                      IN  Result(out, <<WriteEv(out), SendEv("self", 198, raw)>>, FALSE)

\* handle_apply_gearset(session, raw_data)
handle_apply_gearset(chars, name, raw) ==
    LET ci == FindChar(chars, name)
        slot_idx == ReadBits(raw.bits, 0, const_348)
    IN  IF ci = 0 THEN Result(chars, <<>>, FALSE)
        ELSE LET gs == chars[ci].gearSets
                 eq == chars[ci].equippedGears
             IN  IF slot_idx >= Len(gs) THEN Result(chars, <<>>, FALSE)
                 ELSE IF Len(eq) # MAX_SLOTS - 1 THEN Result(chars, <<>>, FALSE)
                 ELSE LET gear_ids == [i \in 1..Len(eq) |-> eq[i].gearID]
                          out == [chars EXCEPT ![ci].gearSets[slot_idx + 1].slots = gear_ids]
                      IN  Result(out, <<WriteEv(out), SendEv("self", 198, raw)>>, FALSE)

----------------------------------------------------------------------------
(* Rune socket and remove (0xB0) *)

\* runes[idx] = v written in place into the rune list rid: every gear that
\* holds this list sees it
WriteRune(gears, rid, idx, v) ==
    [i \in 1..Len(gears) |->
        IF gears[i].rid = rid THEN [gears[i] EXCEPT !.runes[idx] = v] ELSE gears[i]]

\* "Return old_rune to charms"
ReturnRune(charms, old_rune) ==
    LET IsCharm(e) == e.charmID = old_rune
        k == FirstIdx(charms, IsCharm)
    IN  IF k = 0 THEN Append(charms, [charmID |-> old_rune, count |-> 1])
        ELSE [charms EXCEPT ![k].count = charms[k].count + 1]

\* ConsumeCharm that keeps an entry whose count reached zero
ConsumeCharm_KeepsEmpty(charms, id) ==
    LET IsCharm(e) == e.charmID = id
        k == FirstIdx(charms, IsCharm)
    IN  IF k = 0 THEN charms
        ELSE [charms EXCEPT ![k].count = charms[k].count - 1]

\* take one unit of charm id, removing the entry at zero; a missing charm is
\* only logged
ConsumeCharm(charms, id) ==
    LET IsCharm(e) == e.charmID = id
        k == FirstIdx(charms, IsCharm)
    IN  IF k = 0 THEN charms
        ELSE IF charms[k].count - 1 <= 0 THEN RemoveAt(charms, k)
        ELSE [charms EXCEPT ![k].count = charms[k].count - 1]

\* for slot in range(len(eq)): gearID == gear_id and tier == gear_tier
FindEquipped(eq, gear_id, gear_tier) ==
    LET IsGear(g) == g.gearID = gear_id /\ g.tier = gear_tier
    IN  FirstIdx(eq, IsGear)

\* handle_rune_packet(session, raw_data), raw_data decoded to its five fields
handle_rune_packet(chars, name, entity_id, gear_id, gear_tier, rune_id, rune_slot) ==
    LET ci == FindChar(chars, name)
    IN  IF ci = 0 THEN Result(chars, <<>>, FALSE)
        ELSE LET char == chars[ci]
                 inv == char.inventoryGears
                 desired_slots == MAX_SLOTS - 1
                 eq == TruncEq(PadEq(char.equippedGears, inv, desired_slots), desired_slots)
                 slot == FindEquipped(eq, gear_id, gear_tier)
                 padded == [chars EXCEPT ![ci].equippedGears = eq]
             IN  IF slot = 0 \/ ~(1 <= rune_slot /\ rune_slot <= 3)
                 \* gear_found stays False: return after the slot count was fixed
                 THEN Result(padded, <<>>, FALSE)
                 ELSE LET old_rune == eq[slot].runes[rune_slot]
                          v == IF rune_id = 96 THEN 0 ELSE rune_id
                          eq1 == WriteRune(eq, eq[slot].rid, rune_slot, v)
                          inv1 == WriteRune(inv, eq[slot].rid, rune_slot, v)
                          charms1 ==
                              IF rune_id = 96
                              THEN ConsumeCharm(
                                       IF old_rune # 0 /\ old_rune # 96
                                       THEN ReturnRune(char.charms, old_rune)
                                       ELSE char.charms,
                                       96)
                              ELSE ConsumeCharm(char.charms, rune_id)
                          \* "Sync inventoryGears"
                          k == FindEquipped(inv1, gear_id, gear_tier)
                          eq2 == IF k = 0 THEN eq1
                                 ELSE WriteRune(eq1, inv1[k].rid, rune_slot, v)
                          inv2 == IF k = 0 THEN Append(inv1, eq1[slot])
                                  ELSE WriteRune(inv1, inv1[k].rid, rune_slot, v)
                          out == [chars EXCEPT ![ci].equippedGears = eq2,
                                               ![ci].inventoryGears = inv2,
                                               ![ci].charms = charms1]
                      IN  Result(out,
                                 <<WriteEv(out),
                                   SendEv("self", 176,
                                          <<entity_id, gear_id, gear_tier, rune_id, rune_slot>>)>>,
                                 FALSE)

----------------------------------------------------------------------------
(* Dyes (0x111) *)

\* constants.get_dye_color: the RGB of a dye of the palette, None for an
\* unknown dye
get_dye_color(dye) == IF dye \in {1, 2} THEN 1000 + dye ELSE None

\* "Apply gear dye colors"
ApplyDyes(eq, inv, dyes_by_slot) ==
    LET RECURSIVE Go(_, _, _)
        Go(i, e, v) ==
            IF i > Len(dyes_by_slot) THEN [eq |-> e, inv |-> v]
            ELSE LET d == dyes_by_slot[i]
                     at == PyIndex(d.slot, Len(e))
                 IN  IF ~(d.slot < Len(e)) THEN Go(i + 1, e, v)
                     ELSE LET e1 == [e EXCEPT ![at].colors = <<d.d1, d.d2>>]
                              k == FindGear(v, e1[at].gearID)
                          IN  Go(i + 1, e1,
                                 IF k = 0 THEN Append(v, e1[at])
                                 ELSE [v EXCEPT ![k].colors = <<d.d1, d.d2>>])
    IN  Go(1, eq, inv)

\* send_dye_sync_packet: per gear slot the colour pair (<<>> for none), then
\* shirt and pant colour
send_dye_sync_packet(chars, name, entity_id, shirt_color, pant_color) ==
    LET ci == FindChar(chars, name)
        eq == IF ci = 0 THEN <<>> ELSE chars[ci].equippedGears
    IN  SendEv("self", 273,
               [entity_id |-> entity_id,
                slots |-> [slot \in 1..(MAX_SLOTS - 1) |->
                              IF slot - 1 < Len(eq) THEN eq[slot].colors ELSE <<>>],
                shirt |-> shirt_color, pant |-> pant_color])

\* handle_apply_dyes(session, entity_id, dyes_by_slot, preview_only,
\* primary_dye, secondary_dye)
handle_apply_dyes(chars, name, entity_id, dyes_by_slot, primary_dye, secondary_dye) ==
    LET ci == FindChar(chars, name)
        out ==
            IF ci = 0 THEN chars
            ELSE LET char == chars[ci]
                     dyed == ApplyDyes(char.equippedGears, char.inventoryGears, dyes_by_slot)
                     shirt == IF primary_dye # None /\ get_dye_color(primary_dye) # None
                              THEN get_dye_color(primary_dye) ELSE char.shirtColor
                     pant == IF secondary_dye # None /\ get_dye_color(secondary_dye) # None
                             THEN get_dye_color(secondary_dye) ELSE char.pantColor
                 IN  [chars EXCEPT ![ci].equippedGears = dyed.eq,
                                   ![ci].inventoryGears = dyed.inv,
                                   ![ci].shirtColor = shirt,
                                   ![ci].pantColor = pant]
        shirt_rgb == IF ci = 0 THEN None ELSE out[ci].shirtColor
        pant_rgb == IF ci = 0 THEN None ELSE out[ci].pantColor
    IN  \* the save and the sync follow the loop whether or not a character
        \* was found
        Result(out,
               <<WriteEv(out), send_dye_sync_packet(out, name, entity_id, shirt_rgb, pant_rgb)>>,
               FALSE)

----------------------------------------------------------------------------
(* Look change (0x8E, 0x8F) *)

\* the sends of the broadcast loop, in order; a send to a closed connection
\* raises and ends the loop
Broadcast(others, level, body) ==
    LET RECURSIVE Go(_, _)
        Go(i, sent) ==
            IF i > Len(others) THEN [sent |-> sent, raised |-> FALSE]
            ELSE IF /\ others[i].id # "self"
                    /\ others[i].world_loaded
                    /\ others[i].current_level = level
                 THEN IF others[i].conn_open
                      THEN Go(i + 1, Append(sent, SendEv(others[i].id, 143, body)))
                      ELSE [sent |-> sent, raised |-> TRUE]
            ELSE Go(i + 1, sent)
    IN  Go(1, <<>>)

\* handle_change_look(session, raw_data, all_sessions), raw_data decoded to
\* the look
handle_change_look(chars, name, level, others, entity_id, look) ==
    LET ci == FindChar(chars, name)
        out == IF ci = 0 THEN chars
               ELSE [chars EXCEPT ![ci].headSet = look.head, ![ci].hairSet = look.hair,
                                  ![ci].mouthSet = look.mouth, ![ci].faceSet = look.face,
                                  ![ci].gender = look.gender,
                                  ![ci].hairColor = look.hair_color,
                                  ![ci].skinColor = look.skin_color]
        body == <<entity_id, look.head, look.hair, look.mouth, look.face, look.gender,
                  look.hair_color, look.skin_color>>
        cast == Broadcast(others, level, body)
    IN  Result(out, <<WriteEv(out), SendEv("self", 143, body)>> \o cast.sent, cast.raised)

----------------------------------------------------------------------------
(* Mastery (0xC3, 0xC1) and research (0xDF) *)

\* slot_map = { s["nodeIdx"] - 1: s for s in slots }: the last slot of an index
SlotOf(slots, i) ==
    LET Mine == {j \in 1..Len(slots) : slots[j].nodeIdx - 1 = i}
    IN  IF Mine = {} THEN 0 ELSE CHOOSE j \in Mine : \A q \in Mine : q <= j

\* bits of a node index in the mastery packet
CLASS_118_CONST_127 == 5

\* constants.method_277(i): bits of the points of node i
method_277(i) == IF i % 3 = 0 THEN 1 ELSE IF i % 3 = 1 THEN 2 ELSE 3

\* a filled node written with its points as they are
MasteryNode_RawPoints(slot, i) ==
    <<1>> \o WriteBits(slot.nodeIdx, CLASS_118_CONST_127)
          \o WriteBits(slot.points, method_277(i))

\* "has this node", its index, and points - 1 in method_277(i) bits
MasteryNode(slot, i) ==
    <<1>> \o WriteBits(slot.nodeIdx, CLASS_118_CONST_127)
          \o WriteBits(slot.points - 1, method_277(i))

\* the payload of the mastery packet before to_bytes
MasteryBits(slots, entity_id) ==
    write_method_4(entity_id)
        \o Concat([n \in 1..const_43 |->
                      IF SlotOf(slots, n - 1) # 0 /\ slots[SlotOf(slots, n - 1)].filled
                      THEN MasteryNode(slots[SlotOf(slots, n - 1)], n - 1)
                      ELSE <<0>>])

\* send_mastery_packet(session, entity_id): per node a flag and, for a filled
\* node, its index and points - 1
send_mastery_packet(chars, name, entity_id) ==
    LET ci == FindChar(chars, name)
    IN  IF ci = 0 THEN <<>>
        ELSE LET mc == chars[ci].MasterClass
                 slots == IF mc \in DOMAIN chars[ci].Mastery
                          THEN chars[ci].Mastery[mc] ELSE <<>>
             IN  <<SendEv("self", 193, PadToByte(MasteryBits(slots, entity_id)))>>

\* the reading of a mastery payload: per node the flag and, after a set flag,
\* the index and the points
RECURSIVE DecodeNodes(_, _, _)
DecodeNodes(bits, pos, i) ==
    IF i = const_43 THEN [nodes |-> {}, next |-> pos]
    ELSE IF ReadBits(bits, pos, 1) = 0 THEN DecodeNodes(bits, pos + 1, i + 1)
    ELSE LET rest == DecodeNodes(bits, pos + 1 + CLASS_118_CONST_127 + method_277(i), i + 1)
         IN  [nodes |-> rest.nodes \cup
                          {[nodeIdx |-> ReadBits(bits, pos + 1, CLASS_118_CONST_127),
                            points |-> ReadBits(bits, pos + 1 + CLASS_118_CONST_127,
                                                method_277(i)) + 1]},
              next |-> rest.next]

DecodeMastery(bits) ==
    LET head == read_method_4(bits, 0)
        body == DecodeNodes(bits, head.next, 0)
    IN  [entity_id |-> head.value, nodes |-> body.nodes, next |-> body.next]

\* handle_masterclass_packet that syncs the tree selected before the packet
handle_masterclass_packet_StaleTree(chars, name, entity_id, master_class_id) ==
    LET ci == FindChar(chars, name)
    IN  IF ci = 0 THEN Result(chars, <<>>, FALSE)
        ELSE LET out == [chars EXCEPT ![ci].MasterClass = master_class_id]
             IN  Result(out,
                        <<WriteEv(out), SendEv("self", 195, <<entity_id, master_class_id>>)>>
                            \o send_mastery_packet(chars, name, entity_id),
                        FALSE)

\* handle_masterclass_packet(session, raw_data)
handle_masterclass_packet(chars, name, entity_id, master_class_id) ==
    LET ci == FindChar(chars, name)
    IN  IF ci = 0 THEN Result(chars, <<>>, FALSE)
        ELSE LET out == [chars EXCEPT ![ci].MasterClass = master_class_id]
             IN  Result(out,
                        <<WriteEv(out), SendEv("self", 195, <<entity_id, master_class_id>>)>>
                            \o send_mastery_packet(out, name, entity_id),
                        FALSE)

\* handle_research_packet(session, raw_data): no return when the character
\* is missing
handle_research_packet(chars, name) ==
    LET ci == FindChar(chars, name)
        out == IF ci = 0 THEN chars
               ELSE [chars EXCEPT ![ci].towerResearch = [masterClassID |-> 0, endTime |-> 0]]
    IN  Result(out, <<WriteEv(out), SendEv("self", 223, <<>>)>>, FALSE)

----------------------------------------------------------------------------
(* Talents (0xD3) and hotbar *)

\* allocate_talent_points that keeps three bits of each field
allocate_talent_points_ThreeBits(chars, name, packed) ==
    LET ci == FindChar(chars, name)
        points == [i \in 1..5 |-> (packed \div Pow2(4 * (i - 1))) % 8]
    IN  IF ci = 0 THEN Result(chars, <<>>, FALSE)
        ELSE LET out == [chars EXCEPT ![ci].craftTalentPoints = points]
             IN  Result(out, <<WriteEv(out)>>, FALSE)

\* allocate_talent_points(session, data), data decoded to the packed integer
allocate_talent_points(chars, name, packed) ==
    LET ci == FindChar(chars, name)
        points == [i \in 1..5 |-> (packed \div Pow2(4 * (i - 1))) % 16]
    IN  IF ci = 0 THEN Result(chars, <<>>, FALSE)
        ELSE LET out == [chars EXCEPT ![ci].craftTalentPoints = points]
             IN  Result(out, <<WriteEv(out)>>, FALSE)

\* the loop of handle_hotbar_packet: per slot a changed bit and, after a set
\* bit, a 7-bit skill id; updates[idx] keeps the last skill of an index
ParseHotbar(bits) ==
    LET RECURSIVE Go(_, _, _)
        Go(slot, pos, updates) ==
            IF RemainingBits(bits, pos) < 1 THEN [ok |-> TRUE, updates |-> updates]
            ELSE IF ReadBits(bits, pos, 1) = 0 THEN Go(slot + 1, pos + 1, updates)
            ELSE IF RemainingBits(bits, pos + 1) < 7
                 THEN [ok |-> FALSE, updates |-> updates]
            ELSE Go(slot + 1, pos + 8,
                    Append(updates, [idx |-> slot - 1, skill_id |-> ReadBits(bits, pos + 1, 7)]))
    IN  Go(1, 0, <<>>)

\* ApplyHotbar that builds the list anew from the updates
ApplyHotbar_Rebuilds(active, updates) ==
    LET idxs == {updates[i].idx : i \in 1..Len(updates)}
        max_idx == IF idxs = {} THEN -1 ELSE CHOOSE m \in idxs : \A q \in idxs : q <= m
        grown == [i \in 1..Max(Len(active), max_idx + 1) |-> 0]
        RECURSIVE Go(_, _)
        Go(i, a) ==
            IF i > Len(updates) THEN a
            ELSE Go(i + 1, [a EXCEPT ![updates[i].idx + 1] = updates[i].skill_id])
    IN  Go(1, grown)

\* "ensure it's long enough" and "Apply updates in-place"
ApplyHotbar(active, updates) ==
    LET idxs == {updates[i].idx : i \in 1..Len(updates)}
        max_idx == IF idxs = {} THEN -1 ELSE CHOOSE m \in idxs : \A q \in idxs : q <= m
        grown == [i \in 1..Max(Len(active), max_idx + 1) |->
                     IF i <= Len(active) THEN active[i] ELSE 0]
        RECURSIVE Go(_, _)
        Go(i, a) ==
            IF i > Len(updates) THEN a
            ELSE Go(i + 1, [a EXCEPT ![updates[i].idx + 1] = updates[i].skill_id])
    IN  Go(1, grown)

\* handle_hotbar_packet(session, raw_data)
handle_hotbar_packet(chars, name, raw) ==
    LET ci == FindChar(chars, name)
        parsed == ParseHotbar(raw.bits)
    IN  IF ~parsed.ok THEN Result(chars, <<>>, TRUE)
        ELSE IF ci = 0 THEN Result(chars, <<>>, FALSE)
        ELSE LET out == [chars EXCEPT ![ci].activeAbilities =
                                          ApplyHotbar(chars[ci].activeAbilities, parsed.updates)]
             IN  Result(out, <<WriteEv(out)>>, FALSE)

----------------------------------------------------------------------------
(* One handled packet *)

\* the handler named op ran on packet args and ended with res
Handled(op, args, res) ==
    /\ budget' = budget - 1
    /\ characters' = res.chars
    /\ disk' = IF Writes(res.events) = <<>> THEN disk
               ELSE Writes(res.events)[Len(Writes(res.events))].body
    /\ file' = IF Writes(res.events) = <<>> THEN file
               ELSE Chunks(Writes(res.events)[Len(Writes(res.events))].body)
    /\ hist' = Append(hist, [op |-> op, args |-> args, pre |-> Doc(characters),
                             found |-> FindChar(characters, current_character) # 0,
                             events |-> res.events, raised |-> res.raised])
    /\ UNCHANGED <<current_character, current_level, peers, conns,
                   session, mission_positions, position_file,
                   active_sessions, position_loggers, threads, starting>>

----------------------------------------------------------------------------
(* Forge requests: inputs *)

Primaries == {0, 7}

MaterialLists ==
    { <<>>,
      <<[id |-> 12, count |-> 3]>>,
      <<[id |-> 12, count |-> 6], [id |-> 13, count |-> 1], [id |-> 12, count |-> 7]>> }

FlagLists == { <<0, 0, 0, 0>>, <<0, 1, 0, 1>> }

IdolSpends == {4, 10, 50}

StartForge ==
    /\ budget > 0
    /\ \E primary \in Primaries, pairs \in MaterialLists, flags \in FlagLists :
          Handled("start_forge",
                  [primary |-> primary, pairs |-> pairs, flags |-> flags],
                  start_forge_packet(characters, current_character, primary, pairs, flags))

SpeedUpForge ==
    /\ budget > 0
    /\ \E n \in IdolSpends :
          Handled("speed_up", [idols |-> n],
                  magic_forge_packet(characters, current_character, n))

CollectForge ==
    /\ budget > 0
    /\ Handled("collect", [none |-> 0],
               collect_forge_charm(characters, current_character))

CancelForge ==
    /\ budget > 0
    /\ Handled("cancel", [none |-> 0],
               cancel_forge_packet(characters, current_character))

ForgeChars ==
    { [BaseChar EXCEPT !.materials = m, !.consumables = c, !.charms = ch,
                       !.mammothIdols = 10] :
        m \in { <<>>, <<[materialID |-> 12, count |-> 5],
                        [materialID |-> 13, count |-> 1]>> },
        c \in { <<[consumableID |-> 102, count |-> 1]>> },
        ch \in { <<>>, <<[charmID |-> 96, count |-> 1], [charmID |-> 7, count |-> 2]>> } }

InitForge ==
    /\ characters \in { <<c>> : c \in ForgeChars }
    /\ current_character = "hero"
    /\ current_level = "CraftTown"
    /\ peers = <<>>
    /\ disk = Doc(characters)
    /\ file = Chunks(disk)
    /\ conns = <<>>
    /\ session = <<>>
    /\ mission_positions = <<>>
    /\ position_file = <<>>
    /\ NoLoggers
    /\ hist = <<>>
    /\ budget = ForgeSteps

NextForge == StartForge \/ SpeedUpForge \/ CollectForge \/ CancelForge

SpecForge == InitForge /\ [][NextForge]_vars

----------------------------------------------------------------------------
(* Equipment requests: inputs *)

\* a save document as json.load leaves it in memory: every rune list is a
\* list of its own
LoadGears(gs, base) ==
    [i \in 1..Len(gs) |->
        [gearID |-> gs[i].gearID, tier |-> gs[i].tier, runes |-> gs[i].runes,
         colors |-> gs[i].colors, rid |-> base + i]]

Loaded(c) ==
    [c EXCEPT !.equippedGears = LoadGears(c.equippedGears, 0),
              !.inventoryGears = LoadGears(c.inventoryGears, Len(c.equippedGears))]

\* gear of the save documents the model starts from
ZeroGear == [gearID |-> 0, tier |-> 0, runes |-> <<0, 0, 0>>, colors |-> <<0, 0>>]

GearA == [gearID |-> 1, tier |-> 1, runes |-> <<5, 0, 0>>, colors |-> <<2, 3>>]

GearA2 == [gearID |-> 1, tier |-> 1, runes |-> <<0, 6, 0>>, colors |-> <<0, 0>>]

GearB == [gearID |-> 2, tier |-> 0, runes |-> <<0, 0, 0>>, colors |-> <<0, 0>>]

\* gear ids a request names: 1 and 2 are owned, 3 is not
GearIds == {1, 2, 3}

EntityIds == {1}

\* the payload of a bulk update after the entity id: per slot a changed flag
\* and, after a set flag, the gear id; fields[i] = -1 is an unchanged slot
EncodeSlots(fields) ==
    Concat([i \in 1..Len(fields) |->
               IF fields[i] = -1 THEN <<0>>
               ELSE <<1>> \o WriteBits(fields[i], GEARTYPE_BITSTOSEND)])

SlotFields ==
    { <<-1, -1, -1, -1, -1, -1>>,
      <<2, -1, -1, -1, -1, -1>>,
      <<1, -1, -1, -1, -1, 3>>,
      <<-1, 2, 1, -1, -1, -1>> }

\* complete payloads, one followed by padding bits, and payloads that end
\* inside a gear id or before the sixth flag
BulkPayloads ==
    { EncodeSlots(f) : f \in SlotFields }
        \cup { EncodeSlots(<<-1, 2, 1, -1, -1, -1>>) \o <<0, 0, 0>> }
        \cup { SubSeq(EncodeSlots(<<1, -1, -1, -1, -1, 3>>), 1, 2),
               SubSeq(EncodeSlots(<<2, -1, -1, -1, -1, -1>>), 1, GEARTYPE_BITSTOSEND + 3) }

\* the payload of a create or apply gear-set request
EncodeIndex(slot_idx) == PadToByte(WriteBits(slot_idx, const_348))

\* the payload of a name gear-set request: index, declared length, bytes
EncodeName(slot_idx, length, bytes) ==
    PadToByte(WriteBits(slot_idx, 3) \o WriteBits(length, 16)
                \o Concat([i \in 1..Len(bytes) |-> WriteBits(bytes[i], 8)]))

NamePayloads ==
    { EncodeName(i, n, <<65>>) : i \in {0, 3}, n \in {1, 2} }

EquipGear ==
    /\ budget > 0
    /\ \E entity_id \in EntityIds, gear_id \in GearIds,
          ps \in { <<0, 0>>, <<0, 1>>, <<0, 2>>, <<1, 6>>, <<1, 7>> } :
          Handled("equip",
                  [entity_id |-> entity_id, prefix |-> ps[1], slot1 |-> ps[2],
                   gear_id |-> gear_id],
                  handle_gear_packet(characters, current_character, entity_id,
                                     ps[1], ps[2], gear_id))

UpdateEquipment ==
    /\ budget > 0
    /\ \E entity_id \in EntityIds, bits \in BulkPayloads :
          LET raw == [entity_id |-> entity_id, bits |-> bits]
          IN  Handled("bulk", raw,
                      handle_update_equipment(characters, current_character, raw))

CreateGearset ==
    /\ budget > 0
    /\ \E slot_idx \in {0, 1, 5, 7} :
          LET raw == [bits |-> EncodeIndex(slot_idx)]
          IN  Handled("create_gearset", raw,
                      handle_create_gearset(characters, current_character, raw))

NameGearset ==
    /\ budget > 0
    /\ \E bits \in NamePayloads :
          LET raw == [bits |-> bits]
          IN  Handled("name_gearset", raw,
                      handle_name_gearset(characters, current_character, raw))

ApplyGearset ==
    /\ budget > 0
    /\ \E slot_idx \in {0, 3, 7} :
          LET raw == [bits |-> EncodeIndex(slot_idx)]
          IN  Handled("apply_gearset", raw,
                      handle_apply_gearset(characters, current_character, raw))

\* saves in which every equipped gear has its copy in the inventory: a new
\* character, a full equipped list, and an over-long one whose inventory
\* holds gear id 1 twice
EquipChars ==
    { [BaseChar EXCEPT !.inventoryGears = <<GearA, GearB>>],
      [BaseChar EXCEPT !.equippedGears = <<GearA, ZeroGear, ZeroGear, ZeroGear,
                                           ZeroGear, GearB>>,
                       !.inventoryGears = <<GearA, GearB>>,
                       !.gearSets = <<NewGearSet(0)>>],
      [BaseChar EXCEPT !.equippedGears = <<GearA2, ZeroGear, ZeroGear, ZeroGear,
                                           ZeroGear, ZeroGear, GearB>>,
                       !.inventoryGears = <<GearA, GearA2, GearB>>,
                       !.gearSets = <<NewGearSet(0), NewGearSet(1)>>] }

InitEquip ==
    /\ characters \in { <<Loaded(c)>> : c \in EquipChars }
    /\ current_character = "hero"
    /\ current_level = "CraftTown"
    /\ peers = <<>>
    /\ disk = Doc(characters)
    /\ file = Chunks(disk)
    /\ conns = <<>>
    /\ session = <<>>
    /\ mission_positions = <<>>
    /\ position_file = <<>>
    /\ NoLoggers
    /\ hist = <<>>
    /\ budget = EquipSteps

NextEquip ==
    EquipGear \/ UpdateEquipment \/ CreateGearset \/ NameGearset \/ ApplyGearset

SpecEquip == InitEquip /\ [][NextEquip]_vars

----------------------------------------------------------------------------
(* Rune and dye requests: inputs *)

\* (gearId, tier) of a rune packet: gear 1 of tier 1 is the one equipped
RuneTargets == { <<1, 1>>, <<1, 0>>, <<2, 0>> }

\* rune 5 and the remover
RuneIds == {5, 96}

RuneSlots == {1, 3, 4}

RunePacket ==
    /\ budget > 0
    /\ \E entity_id \in EntityIds, gt \in RuneTargets, rune_id \in RuneIds,
          rune_slot \in RuneSlots :
          Handled("rune",
                  [entity_id |-> entity_id, gear_id |-> gt[1], gear_tier |-> gt[2],
                   rune_id |-> rune_id, rune_slot |-> rune_slot],
                  handle_rune_packet(characters, current_character, entity_id,
                                     gt[1], gt[2], rune_id, rune_slot))

DyeRequests ==
    { [dyes_by_slot |-> <<>>, primary_dye |-> 1, secondary_dye |-> 9],
      [dyes_by_slot |-> <<[slot |-> 0, d1 |-> 4, d2 |-> 5]>>,
       primary_dye |-> None, secondary_dye |-> None],
      [dyes_by_slot |-> <<[slot |-> 5, d1 |-> 6, d2 |-> 7], [slot |-> 6, d1 |-> 1, d2 |-> 1]>>,
       primary_dye |-> None, secondary_dye |-> 2] }

ApplyDyesRequest ==
    /\ budget > 0
    /\ \E entity_id \in EntityIds, d \in DyeRequests :
          Handled("dyes", [entity_id |-> entity_id, dyes |-> d],
                  handle_apply_dyes(characters, current_character, entity_id,
                                    d.dyes_by_slot, d.primary_dye, d.secondary_dye))

\* full equipped lists with gear 1 and 2, with no charm, one unit of rune 5
\* and of the remover, or several
RuneChars ==
    { [BaseChar EXCEPT !.equippedGears = <<GearA, ZeroGear, ZeroGear, ZeroGear,
                                           ZeroGear, GearB>>,
                       !.inventoryGears = <<GearA, GearB>>,
                       !.charms = ch] :
        ch \in { <<>>,
                 <<[charmID |-> 5, count |-> 1], [charmID |-> 96, count |-> 1]>>,
                 <<[charmID |-> 96, count |-> 2], [charmID |-> 5, count |-> 3]>> } }

InitRune ==
    /\ characters \in { <<Loaded(c)>> : c \in RuneChars }
    /\ current_character = "hero"
    /\ current_level = "CraftTown"
    /\ peers = <<>>
    /\ disk = Doc(characters)
    /\ file = Chunks(disk)
    /\ conns = <<>>
    /\ session = <<>>
    /\ mission_positions = <<>>
    /\ position_file = <<>>
    /\ NoLoggers
    /\ hist = <<>>
    /\ budget = RuneSteps

NextRune == EquipGear \/ RunePacket \/ ApplyDyesRequest

SpecRune == InitRune /\ [][NextRune]_vars

----------------------------------------------------------------------------
(* The other requests: inputs *)

Looks ==
    { [head |-> "h1", hair |-> "h2", mouth |-> "h3", face |-> "h4", gender |-> "f",
       hair_color |-> c, skin_color |-> 7] : c \in {0, 16777215} }

\* entity_id is session.clientEntID
ChangeLook ==
    /\ budget > 0
    /\ \E entity_id \in EntityIds, look \in Looks :
          Handled("look", look,
                  handle_change_look(characters, current_character, current_level,
                                     peers, entity_id, look))

SelectMasterClass ==
    /\ budget > 0
    /\ \E entity_id \in EntityIds, master_class_id \in {1, 2} :
          Handled("masterclass",
                  [entity_id |-> entity_id, master_class_id |-> master_class_id],
                  handle_masterclass_packet(characters, current_character, entity_id,
                                            master_class_id))

ClearResearch ==
    /\ budget > 0
    /\ Handled("research", [none |-> 0],
               handle_research_packet(characters, current_character))

\* talent points a client packs: none, 1..5, the largest values, and mixed
TalentTuples ==
    { <<0, 0, 0, 0, 0>>, <<1, 2, 3, 4, 5>>, <<15, 15, 15, 15, 15>>,
      <<15, 0, 0, 0, 8>>, <<0, 7, 0, 0, 15>> }

\* five 4-bit values in one integer, index i at bits 4i..4i+3
PackTalents(p) == p[1] + 16 * (p[2] + 16 * (p[3] + 16 * (p[4] + 16 * p[5])))

\* packed talent points, alone and with bits set at positions 20 and above
PackedTalents ==
    { PackTalents(p) + Pow2(20) * high : p \in TalentTuples, high \in {0, 1, 2047} }

AllocateTalents ==
    /\ budget > 0
    /\ \E packed \in PackedTalents :
          Handled("talents", [packed |-> packed],
                  allocate_talent_points(characters, current_character, packed))

\* hotbar payloads: skill 9 into the second slot, nothing, one that ends
\* inside a skill id, the largest skill into the first slot with skill 5 into
\* the fifth, and skill 0 into the twelfth
HotbarPayloads ==
    { <<0, 1>> \o WriteBits(9, 7) \o <<0, 0, 0, 0, 0, 0, 0>>,
      <<0, 0, 0, 0, 0, 0, 0, 0>>,
      <<0, 0, 0, 0, 0, 1, 0, 0>>,
      PadToByte(<<1>> \o WriteBits(127, 7) \o <<0, 0, 0, 1>> \o WriteBits(5, 7)),
      PadToByte(<<0, 0, 0, 0, 0, 0, 0, 0, 0, 0, 0, 1>> \o WriteBits(0, 7)) }

UpdateHotbar ==
    /\ budget > 0
    /\ \E bits \in HotbarPayloads :
          LET raw == [bits |-> bits]
          IN  Handled("hotbar", raw,
                      handle_hotbar_packet(characters, current_character, raw))

----------------------------------------------------------------------------
(* The whole handler set *)

\* all_sessions: the session itself, and others loaded in the same level,
\* not loaded, loaded elsewhere
Peers ==
    << [id |-> "self", world_loaded |-> TRUE, current_level |-> "CraftTown", conn_open |-> TRUE],
       [id |-> "p1", world_loaded |-> TRUE, current_level |-> "CraftTown", conn_open |-> TRUE],
       [id |-> "p2", world_loaded |-> FALSE, current_level |-> "CraftTown", conn_open |-> TRUE],
       [id |-> "p3", world_loaded |-> TRUE, current_level |-> "NewbieRoad", conn_open |-> TRUE] >>

\* the saves of the equipment specification with charms, materials, idols
\* and a mastery tree
AllChars ==
    { [c EXCEPT !.charms = <<[charmID |-> 5, count |-> 1], [charmID |-> 96, count |-> 1]>>,
                !.materials = <<[materialID |-> 12, count |-> 5]>>,
                !.mammothIdols = 10,
                !.Mastery = <<<<[nodeIdx |-> 1, points |-> 2, filled |-> TRUE],
                                [nodeIdx |-> 3, points |-> 1, filled |-> FALSE]>>>>] :
        c \in EquipChars }

\* the session's character is in the save ("hero") or is not ("ghost")
Init ==
    /\ characters \in { <<Loaded(c)>> : c \in AllChars }
    /\ current_character \in {"hero", "ghost"}
    /\ current_level = "CraftTown"
    /\ peers = Peers
    /\ disk = Doc(characters)
    /\ file = Chunks(disk)
    /\ conns = <<>>
    /\ session = <<>>
    /\ mission_positions = <<>>
    /\ position_file = <<>>
    /\ NoLoggers
    /\ hist = <<>>
    /\ budget = Steps

Next ==
    \/ EquipGear \/ UpdateEquipment \/ CreateGearset \/ NameGearset \/ ApplyGearset
    \/ RunePacket \/ ApplyDyesRequest \/ ChangeLook
    \/ SelectMasterClass \/ ClearResearch
    \/ StartForge \/ SpeedUpForge \/ CollectForge \/ CancelForge
    \/ AllocateTalents \/ UpdateHotbar

Spec == Init /\ [][Next]_vars

----------------------------------------------------------------------------
(* One packet of any kind, for a character with or without a forge session *)

\* the saves of the whole handler set, and the same after a forge was started
ReplyChars ==
    AllChars \cup { [c EXCEPT !.magicForge = StartedForge(c.magicForge, 7)] : c \in AllChars }

InitReply ==
    /\ characters \in { <<Loaded(c)>> : c \in ReplyChars }
    /\ current_character \in {"hero", "ghost"}
    /\ current_level = "CraftTown"
    /\ peers = Peers
    /\ disk = Doc(characters)
    /\ file = Chunks(disk)
    /\ conns = <<>>
    /\ session = <<>>
    /\ mission_positions = <<>>
    /\ position_file = <<>>
    /\ NoLoggers
    /\ hist = <<>>
    /\ budget = ReplySteps

SpecReply == InitReply /\ [][Next]_vars

----------------------------------------------------------------------------
(* Look changes with peers that left *)

\* all_sessions with the connections of the sessions in closed gone
PeersWith(closed) ==
    LET Gone(p) == [p EXCEPT !.conn_open = p.id \notin closed]
    IN  [i \in 1..Len(Peers) + 1 |->
            IF i <= Len(Peers) THEN Gone(Peers[i])
            ELSE Gone([id |-> "p4", world_loaded |-> TRUE, current_level |-> "CraftTown",
                       conn_open |-> TRUE])]

InitLook ==
    /\ characters = <<Loaded(BaseChar)>>
    /\ current_character \in {"hero", "ghost"}
    /\ current_level = "CraftTown"
    /\ peers \in { PeersWith(closed) : closed \in {{}, {"p1"}, {"p2"}, {"p3"}, {"p4"}} }
    /\ disk = Doc(characters)
    /\ file = Chunks(disk)
    /\ conns = <<>>
    /\ session = <<>>
    /\ mission_positions = <<>>
    /\ position_file = <<>>
    /\ NoLoggers
    /\ hist = <<>>
    /\ budget = LookSteps

NextLook == ChangeLook \/ ApplyDyesRequest

SpecLook == InitLook /\ [][NextLook]_vars

----------------------------------------------------------------------------
(* Mastery trees: nodes of each width, empty, unfilled, at one point and at
   the cap of their width, listed from the last node to the first *)

MasteryNodes == <<27, 14, 1>>

\* the states of a node: not in the list, listed unfilled, filled with one
\* point, filled to the cap
NodeStates == {"absent", "unfilled", "one", "cap"}

TreeOf(st) ==
    LET Listed(n) == st[n] # "absent"
        Slot(n) == [nodeIdx |-> MasteryNodes[n],
                    points |-> IF st[n] = "cap" THEN Pow2(method_277(MasteryNodes[n] - 1))
                               ELSE 1,
                    filled |-> st[n] # "unfilled"]
        RECURSIVE Build(_)
        Build(n) == IF n > Len(MasteryNodes) THEN <<>>
                    ELSE (IF Listed(n) THEN <<Slot(n)>> ELSE <<>>) \o Build(n + 1)
    IN  Build(1)

Trees == { TreeOf(st) : st \in [1..Len(MasteryNodes) -> NodeStates] }

\* the tree of the second class, kept the same in every save
Tree2 == <<[nodeIdx |-> 2, points |-> 3, filled |-> TRUE],
           [nodeIdx |-> 26, points |-> 1, filled |-> TRUE]>>

\* saves with a tree for both classes, and saves with one for the first only
MasteryChars ==
    { [BaseChar EXCEPT !.Mastery = <<t>>] : t \in Trees }
        \cup { [BaseChar EXCEPT !.Mastery = <<t, Tree2>>] : t \in Trees }

InitMastery ==
    /\ characters \in { <<Loaded(c)>> : c \in MasteryChars }
    /\ current_character \in {"hero", "ghost"}
    /\ current_level = "CraftTown"
    /\ peers = Peers
    /\ disk = Doc(characters)
    /\ file = Chunks(disk)
    /\ conns = <<>>
    /\ session = <<>>
    /\ mission_positions = <<>>
    /\ position_file = <<>>
    /\ NoLoggers
    /\ hist = <<>>
    /\ budget = MasterySteps

NextMastery == SelectMasterClass \/ ClearResearch

SpecMastery == InitMastery /\ [][NextMastery]_vars

----------------------------------------------------------------------------
(* Talents and hotbar: saves with no hotbar, a short one and a full one *)

SkillChars ==
    { [BaseChar EXCEPT !.activeAbilities = a, !.craftTalentPoints = t] :
          a \in { <<>>, <<3, 4>>, <<1, 2, 3, 4, 5, 6, 7, 8>> },
          t \in { <<>>, <<1, 1, 1, 1, 1>> } }

InitSkills ==
    /\ characters \in { <<Loaded(c)>> : c \in SkillChars }
    /\ current_character \in {"hero", "ghost"}
    /\ current_level = "CraftTown"
    /\ peers = Peers
    /\ disk = Doc(characters)
    /\ file = Chunks(disk)
    /\ conns = <<>>
    /\ session = <<>>
    /\ mission_positions = <<>>
    /\ position_file = <<>>
    /\ NoLoggers
    /\ hist = <<>>
    /\ budget = SkillSteps

NextSkills == AllocateTalents \/ UpdateHotbar

SpecSkills == InitSkills /\ [][NextSkills]_vars

----------------------------------------------------------------------------
(* Charms: rune packets and forge collects on one save *)

\* the saves of RuneChars with an idle forge, and with a session whose
\* primary is rune 5 or a charm the character does not hold
CharmChars ==
    RuneChars \cup { [c EXCEPT !.magicForge = StartedForge(c.magicForge, p)] :
                        c \in RuneChars, p \in {5, 7} }

InitCharms ==
    /\ characters \in { <<Loaded(c)>> : c \in CharmChars }
    /\ current_character = "hero"
    /\ current_level = "CraftTown"
    /\ peers = <<>>
    /\ disk = Doc(characters)
    /\ file = Chunks(disk)
    /\ conns = <<>>
    /\ session = <<>>
    /\ mission_positions = <<>>
    /\ position_file = <<>>
    /\ NoLoggers
    /\ hist = <<>>
    /\ budget = CharmSteps

NextCharms == RunePacket \/ CollectForge

SpecCharms == InitCharms /\ [][NextCharms]_vars

----------------------------------------------------------------------------
(* Gear-sets: create, name and apply packets on one save *)

\* a full equipped list with no gear-set, seven, or eight
GearSetChars ==
    { [BaseChar EXCEPT !.equippedGears = <<GearA, ZeroGear, ZeroGear, ZeroGear,
                                           ZeroGear, GearB>>,
                       !.inventoryGears = <<GearA, GearB>>,
                       !.gearSets = [i \in 1..n |-> NewGearSet(i - 1)]] :
        n \in {0, 7, 8} }

InitGearSets ==
    /\ characters \in { <<Loaded(c)>> : c \in GearSetChars }
    /\ current_character = "hero"
    /\ current_level = "CraftTown"
    /\ peers = <<>>
    /\ disk = Doc(characters)
    /\ file = Chunks(disk)
    /\ conns = <<>>
    /\ session = <<>>
    /\ mission_positions = <<>>
    /\ position_file = <<>>
    /\ NoLoggers
    /\ hist = <<>>
    /\ budget = GearSetSteps

NextGearSets == CreateGearset \/ NameGearset \/ ApplyGearset

SpecGearSets == InitGearSets /\ [][NextGearSets]_vars

----------------------------------------------------------------------------
(* The save file under two connections of one user and a stopping process *)

\* Each connection holds its own session, with the save as it loaded it.  A
\* handler runs as its steps: the lookup and mutation in memory, then its
\* events in order: open(save_path, "w"), json.dump piece by piece, the end
\* of the with block, conn.sendall.

Conns == {"c1", "c2"}

\* a connection between two packets
IdleConn(chars) ==
    [player_data |-> chars, pc |-> "idle", todo |-> <<>>, writing |-> FALSE,
     chunks |-> <<>>, offset |-> 0, before |-> <<>>, packets |-> <<>>]

\* bytes a write skipped over after another writer truncated the file
Hole == [kind |-> "hole"]

\* f.write(chunk) at the writer's own offset
WriteAt(f, pos, chunk) ==
    IF pos <= Len(f) THEN [f EXCEPT ![pos] = chunk]
    ELSE f \o [i \in 1..(pos - Len(f) - 1) |-> Hole] \o <<chunk>>

\* what is left of a handler after its first event
Advance(conn) ==
    [conn EXCEPT !.todo = Tail(conn.todo),
                 !.pc = IF Tail(conn.todo) = <<>> THEN "idle" ELSE "ready"]

\* the lookup and mutation of a handler on the connection's own save
Begun(c, op, args, res) ==
    /\ budget' = budget - 1
    /\ conns' = [conns EXCEPT ![c] =
                    [@ EXCEPT !.player_data = res.chars,
                              !.todo = res.events,
                              !.pc = IF res.events = <<>> THEN "idle" ELSE "ready",
                              !.packets = Append(@, [op |-> op, args |-> args])]]
    /\ UNCHANGED <<characters, current_character, current_level, peers, disk, hist, file,
                   session, mission_positions, position_file,
                   active_sessions, position_loggers, threads, starting>>

\* rune packets of the two connections: rune 5 or 6 into rune slot 2 or 3 of
\* the equipped gear 1, or into a slot that does not exist
StoreRunes ==
    { [entity_id |-> 1, gear_id |-> 1, gear_tier |-> 1, rune_id |-> r, rune_slot |-> k] :
        r \in {5, 6}, k \in {2, 3} }
        \cup { [entity_id |-> 1, gear_id |-> 1, gear_tier |-> 1, rune_id |-> 5,
                rune_slot |-> 4] }

BeginRune ==
    /\ budget > 0
    /\ \E c \in Conns, a \in StoreRunes :
          /\ conns[c].pc = "idle"
          /\ Begun(c, "rune", a,
                   handle_rune_packet(conns[c].player_data, current_character,
                                      a.entity_id, a.gear_id, a.gear_tier, a.rune_id,
                                      a.rune_slot))

BeginHotbar ==
    /\ budget > 0
    /\ \E c \in Conns :
          LET raw == [bits |-> <<0, 1>> \o WriteBits(9, 7) \o <<0, 0, 0, 0, 0, 0, 0>>]
          IN  /\ conns[c].pc = "idle"
              /\ Begun(c, "hotbar", raw,
                       handle_hotbar_packet(conns[c].player_data, current_character, raw))

\* with open(save_path, "w", encoding="utf-8") as f: the file is truncated
OpenSave ==
    \E c \in Conns :
        /\ conns[c].pc = "ready"
        /\ Head(conns[c].todo).kind = "write"
        /\ file' = <<>>
        /\ conns' = [conns EXCEPT ![c] =
                        [@ EXCEPT !.pc = "dump", !.writing = TRUE, !.offset = 0,
                                  !.chunks = Chunks(Head(conns[c].todo).body),
                                  !.before = file]]
        /\ UNCHANGED <<characters, current_character, current_level, peers, disk, hist,
                       budget,
                       session, mission_positions, position_file,
                       active_sessions, position_loggers, threads, starting>>

\* json.dump(pd, f, indent=2): the next piece reaches the file
DumpChunk ==
    \E c \in Conns :
        /\ conns[c].pc = "dump"
        /\ conns[c].chunks # <<>>
        /\ file' = WriteAt(file, conns[c].offset + 1, Head(conns[c].chunks))
        /\ conns' = [conns EXCEPT ![c] =
                        [@ EXCEPT !.offset = @ + 1, !.chunks = Tail(@)]]
        /\ UNCHANGED <<characters, current_character, current_level, peers, disk, hist,
                       budget,
                       session, mission_positions, position_file,
                       active_sessions, position_loggers, threads, starting>>

\* the end of the with block: the file is closed
CloseSave ==
    \E c \in Conns :
        /\ conns[c].pc = "dump"
        /\ conns[c].chunks = <<>>
        /\ disk' = Head(conns[c].todo).body
        /\ conns' = [conns EXCEPT ![c] = [Advance(@) EXCEPT !.writing = FALSE]]
        /\ UNCHANGED <<characters, current_character, current_level, peers, hist, budget,
                       file,
                       session, mission_positions, position_file,
                       active_sessions, position_loggers, threads, starting>>

\* session.conn.sendall(resp)
SendReply ==
    \E c \in Conns :
        /\ conns[c].pc = "ready"
        /\ Head(conns[c].todo).kind = "send"
        /\ conns' = [conns EXCEPT ![c] = Advance(@)]
        /\ UNCHANGED <<characters, current_character, current_level, peers, disk, hist,
                       budget, file,
                       session, mission_positions, position_file,
                       active_sessions, position_loggers, threads, starting>>

\* the process stops; the file keeps what was written
Crash ==
    /\ \E c \in Conns : conns[c].pc # "stopped"
    /\ conns' = [c \in Conns |-> [conns[c] EXCEPT !.pc = "stopped"]]
    /\ UNCHANGED <<characters, current_character, current_level, peers, disk, hist,
                   budget, file,
                   session, mission_positions, position_file,
                   active_sessions, position_loggers, threads, starting>>

\* a save with gear 1 equipped and charms for the rune packets
StoreChar ==
    [BaseChar EXCEPT !.equippedGears = <<GearA, ZeroGear, ZeroGear, ZeroGear,
                                         ZeroGear, GearB>>,
                     !.inventoryGears = <<GearA, GearB>>,
                     !.charms = <<[charmID |-> 5, count |-> 2],
                                  [charmID |-> 6, count |-> 2]>>]

InitStore ==
    /\ characters = <<Loaded(StoreChar)>>
    /\ current_character = "hero"
    /\ current_level = "CraftTown"
    /\ peers = <<>>
    /\ disk = Doc(characters)
    /\ file = Chunks(disk)
    /\ conns = [c \in Conns |-> IdleConn(characters)]
    /\ session = <<>>
    /\ mission_positions = <<>>
    /\ position_file = <<>>
    /\ NoLoggers
    /\ hist = <<>>
    /\ budget = StoreSteps

NextStore ==
    BeginRune \/ BeginHotbar \/ OpenSave \/ DumpChunk \/ CloseSave \/ SendReply \/ Crash

SpecStore == InitStore /\ [][NextStore]_vars

----------------------------------------------------------------------------
(* The bit codec on one payload *)

\* str.encode('utf-8') of code points below 2048
RECURSIVE Utf8Encode(_)
Utf8Encode(text) ==
    IF text = <<>> THEN <<>>
    ELSE (IF Head(text) < 128 THEN <<Head(text)>>
          ELSE <<192 + (Head(text) \div 64), 128 + (Head(text) % 64)>>)
         \o Utf8Encode(Tail(text))

\* a string with its 16-bit length in code units
WriteString(text) ==
    WriteBits(Len(Utf8Encode(text)), 16)
        \o Concat([i \in 1..Len(Utf8Encode(text)) |-> WriteBits(Utf8Encode(text)[i], 8)])

\* the string read of handle_name_gearset with the cursor at pos: the length,
\* the check against the remaining bytes, the code units and their decoding
ReadString(bits, pos) ==
    LET length == ReadBits(bits, pos, 16)
        result_bytes == [i \in 1..length |-> ReadBits(bits, pos + 16 + 8 * (i - 1), 8)]
    IN  IF length > RemainingBits(bits, pos + 16) \div 8
        THEN [ok |-> FALSE, text |-> <<>>, next |-> pos + 16]
        ELSE [ok |-> TRUE, text |-> DecodeName(result_bytes), next |-> pos + 16 + 8 * length]

\* fixed-width fields: every width up to MaxWidth with every value, and the
\* 24 bits of a color
FixedFields ==
    { f \in [width : 0..MaxWidth, value : 0..(Pow2(MaxWidth) - 1)] :
        f.value < Pow2(f.width) }
        \cup { [width |-> 24, value |-> v] : v \in {0, 8388608, 16777215} }

\* strings of at most MaxStrLen code points: A and e with acute accent
Texts == UNION { [1..n -> {65, 233}] : n \in 0..MaxStrLen }

\* a payload: bits already in the buffer, then an entity id, a fixed-width
\* field and a string
PayloadOf(lead, entity_id, f, text) ==
    PadToByte(lead \o write_method_4(entity_id) \o WriteBits(f.value, f.width)
                \o WriteString(text))

\* the fields read back in the order they were written
Decoded(bits, lead, width) ==
    LET e == read_method_4(bits, Len(lead))
        v == ReadBits(bits, e.next, width)
        t == ReadString(bits, e.next + width)
    IN  [entity_id |-> e.value, value |-> v, ok |-> t.ok, text |-> t.text,
         rest |-> RemainingBits(bits, t.next)]

\* BitBuffer: the fields are written and the buffer finalized
WritePayload ==
    /\ hist = <<>>
    /\ \E lead \in {<<>>, <<1, 0, 1>>}, entity_id \in 0..MaxVarUint,
          f \in FixedFields, text \in Texts :
          hist' = <<[op |-> "codec",
                     args |-> [lead |-> lead, entity_id |-> entity_id, width |-> f.width,
                               value |-> f.value, text |-> text],
                     bits |-> PayloadOf(lead, entity_id, f, text),
                     read |-> <<>>]>>
    /\ UNCHANGED <<characters, current_character, current_level, peers, disk, budget,
                   file, conns,
                   session, mission_positions, position_file,
                   active_sessions, position_loggers, threads, starting>>

\* BitReader: the fields are read from the payload
ReadPayload ==
    /\ hist # <<>>
    /\ hist[1].op = "codec"
    /\ hist[1].read = <<>>
    /\ hist' = <<[hist[1] EXCEPT !.read =
                     <<Decoded(hist[1].bits, hist[1].args.lead, hist[1].args.width)>>]>>
    /\ UNCHANGED <<characters, current_character, current_level, peers, disk, budget,
                   file, conns,
                   session, mission_positions, position_file,
                   active_sessions, position_loggers, threads, starting>>

InitCodec ==
    /\ characters = <<>>
    /\ current_character = "hero"
    /\ current_level = "CraftTown"
    /\ peers = <<>>
    /\ disk = <<>>
    /\ file = <<>>
    /\ conns = <<>>
    /\ session = <<>>
    /\ mission_positions = <<>>
    /\ position_file = <<>>
    /\ NoLoggers
    /\ hist = <<>>
    /\ budget = 0

NextCodec == WritePayload \/ ReadPayload

SpecCodec == InitCodec /\ [][NextCodec]_vars

----------------------------------------------------------------------------
(* level_config.py: the level table *)

\* _raw_level_config: level name, "swf map_lvl base_lvl instanced [Hard]"
raw_level_config ==
    << <<"CraftTown", "LevelsHome.swf/a_Level_Home 1 1 true">>,
       <<"CraftTownTutorial", "LevelsHome.swf/a_Level_HomeTutorial 1 1 true">>,
       <<"--------WOLFS END------------", "">>,
       <<"TutorialBoat", "LevelsTut.swf/a_Level_TutorialBoat 1 1 true">>,
       <<"NewbieRoad", "LevelsNR.swf/a_Level_NewbieRoad 1 1 false">>,
       <<"NewbieRoadHard", "LevelsNR.swf/a_Level_NewbieRoad 36 1 false Hard">>,
       <<"TutorialDungeon", "LevelsNR.swf/a_Level_NRTutorial 2 2 true">>,
       <<"TutorialDungeonHard", "LevelsNR.swf/a_Level_GoblinBeachHard 37 2 true Hard">>,
       <<"GoblinRiverDungeon", "LevelsNR.swf/a_Level_GoblinRiver 3 3 true">>,
       <<"GoblinRiverDungeonHard", "LevelsNR.swf/a_Level_GoblinRiver 38 3 true Hard">>,
       <<"GhostBossDungeon", "LevelsNR.swf/a_Level_NRGhost 4 4 true">>,
       <<"GhostBossDungeonHard", "LevelsNR.swf/a_Level_NRGhost 39 4 true Hard">>,
       <<"DreamDragonDungeon", "LevelsNR.swf/a_Level_NRDragon 5 5 true">>,
       <<"DreamDragonDungeonHard", "LevelsNR.swf/a_Level_NRDragon 40 5 true Hard">>,
       <<"NR_Tales1Keep", "TalesNR.swf/a_Level_NRTales1Keep 44 29 true">>,
       <<"NR_Tales2Anna", "TalesNR.swf/a_Level_NRTales2Anna 44 29 true">>,
       <<"NR_Tales3Bazaar", "TalesNR.swf/a_Level_NRTales3Bazaar 44 29 true">>,
       <<"NR_Tales4Research", "TalesNR.swf/a_Level_NRTales4Research 44 29 true">>,
       <<"NR_Tales5DreamCave", "TalesNR.swf/a_Level_NRTales5DreamCave 44 29 true">>,
       <<"--------BLACKROSE MIRE------------", "">>,
       <<"SwampRoadNorth", "LevelsSRN.swf/a_Level_SwampRoadNorth 6 6 false">>,
       <<"SwampRoadNorthHard", "LevelsSRN.swf/a_Level_SwampRoadNorth 31 6 false Hard">>,
       <<"SRN_Mission1", "LevelsSRN.swf/a_Level_SRNMission1Castout 6 6 true">>,
       <<"SRN_Mission1Hard", "LevelsSRN.swf/a_Level_SRNMission1Castout 31 6 true Hard">>,
       <<"SRN_Mission2", "LevelsSRN.swf/a_Level_SRNMission2Yornak 7 7 true">>,
       <<"SRN_Mission2Hard", "LevelsSRN.swf/a_Level_SRNMission2Yornak 32 7 true Hard">>,
       <<"SRN_Mission3", "LevelsSRN.swf/a_Level_SRNMission3Svar 8 8 true">>,
       <<"SRN_Mission3Hard", "LevelsSRN.swf/a_Level_SRNMission3Svar 33 8 true Hard">>,
       <<"SRN_Mission4", "LevelsSRN.swf/a_Level_SRNMission4Ooyak 8 8 true">>,
       <<"SRN_Mission4Hard", "LevelsSRN.swf/a_Level_SRNMission4Ooyak 33 8 true Hard">>,
       <<"SRN_Mission5", "LevelsSRN.swf/a_Level_SRNMission5Broodvictor 9 9 true">>,
       <<"SRN_Mission5Hard", "LevelsSRN.swf/a_Level_SRNMission5Broodvictor 34 9 true Hard">>,
       <<"SRN_Mission6", "LevelsSRN.swf/a_Level_SRNMission6MindlessQueen 8 8 true">>,
       <<"SRN_Mission6Hard", "LevelsSRN.swf/a_Level_SRNMission6MindlessQueen 33 8 true Hard">>,
       <<"SRN_Mission7", "LevelsSRN.swf/a_Level_SRNMission7Svath 9 9 true">>,
       <<"SRN_Mission7Hard", "LevelsSRN.swf/a_Level_SRNMission7Svath 34 9 true Hard">>,
       <<"SwampRoadConnection", "LevelsSRN.swf/a_Level_SwampRoadConnection 10 10 false">>,
       <<"SwampRoadConnectionHard", "LevelsSRN.swf/a_Level_SwampRoadConnection 35 10 false Hard">>,
       <<"SwampRoadConnectionMission", "LevelsSRN.swf/a_Level_SwampRoadConnectionMission 10 10 true">>,
       <<"SwampRoadConnectionMissionHard", "LevelsSRN.swf/a_Level_SwampRoadConnectionMission 35 10 true Hard">>,
       <<"--------FELBRIDGE------------", "">>,
       <<"BridgeTown", "LevelsBT.swf/a_Level_BridgeTown 10 10 false">>,
       <<"BridgeTownHard", "LevelsBT.swf/a_Level_BridgeTown 25 10 false Hard">>,
       <<"BridgeTownEast", "LevelsBT.swf/a_Room_BTZ_BridgeTownEast 25 10 false">>,
       <<"BT_Mission1", "LevelsBT.swf/a_Level_BTMission1 11 11 true">>,
       <<"BT_Mission1Hard", "LevelsBT.swf/a_Level_BTMission1 26 11 true Hard">>,
       <<"BT_Mission2", "LevelsBT.swf/a_Level_BTMission2 12 12 true">>,
       <<"BT_Mission2Hard", "LevelsBT.swf/a_Level_BTMission2 27 12 true Hard">>,
       <<"BT_Mission3", "LevelsBT.swf/a_Level_BTMission3 14 14 true">>,
       <<"BT_Mission3Hard", "LevelsBT.swf/a_Level_BTMission3 29 14 true Hard">>,
       <<"BT_Mission4", "LevelsBT.swf/a_Level_BTMission4 15 15 true">>,
       <<"BT_Mission4Hard", "LevelsBT.swf/a_Level_BTMission4 30 15 true Hard">>,
       <<"LDArena1", "LevelsLD.swf/a_Level_LDArena1 50 50 true">>,
       <<"--------CEMETERY HILL------------", "">>,
       <<"CemeteryHill", "LevelsCH.swf/a_Level_CemeteryHill 11 11 false">>,
       <<"CemeteryHillHard", "LevelsCH.swf/a_Level_CemeteryHill 26 11 false Hard">>,
       <<"CH_Mission1", "LevelsCH.swf/a_Level_CHMission1 11 11 true">>,
       <<"CH_Mission1Hard", "LevelsCH.swf/a_Level_CHMission1 26 11 true Hard">>,
       <<"CH_Mission2", "LevelsCH.swf/a_Level_CHMission2 11 11 true">>,
       <<"CH_Mission2Hard", "LevelsCH.swf/a_Level_CHMission2 26 11 true Hard">>,
       <<"CH_Mission3", "LevelsCH.swf/a_Level_CHMission3 13 13 true">>,
       <<"CH_Mission3Hard", "LevelsCH.swf/a_Level_CHMission3 28 13 true Hard">>,
       <<"CH_Mission4", "LevelsCH.swf/a_Level_CHMission4 12 12 true">>,
       <<"CH_Mission4Hard", "LevelsCH.swf/a_Level_CHMission4 27 12 true Hard">>,
       <<"CH_Mission5", "LevelsCH.swf/a_Level_CHMission5 12 12 true">>,
       <<"CH_Mission5Hard", "LevelsCH.swf/a_Level_CHMission5 27 12 true Hard">>,
       <<"CH_Mission6", "LevelsCH.swf/a_Level_CHMission6 14 14 true">>,
       <<"CH_Mission6Hard", "LevelsCH.swf/a_Level_CHMission6 29 14 true Hard">>,
       <<"CH_Mission7", "LevelsCH.swf/a_Level_CHMission7 15 15 true">>,
       <<"CH_Mission7Hard", "LevelsCH.swf/a_Level_CHMission7 30 15 true Hard">>,
       <<"CH_Mission8", "LevelsCH.swf/a_Level_CHMission8 15 15 true">>,
       <<"CH_Mission8Hard", "LevelsCH.swf/a_Level_CHMission8 30 15 true Hard">>,
       <<"CH_MiniMission1", "LevelsCH.swf/a_Level_CHMini1 11 11 true">>,
       <<"CH_MiniMission1Hard", "LevelsCH.swf/a_Level_CHMini1 26 11 true Hard">>,
       <<"CH_MiniMission2", "LevelsCH.swf/a_Level_CHMini2 11 11 true">>,
       <<"CH_MiniMission2Hard", "LevelsCH.swf/a_Level_CHMini2 26 11 true Hard">>,
       <<"CH_MiniMission3", "LevelsCH.swf/a_Level_CHMini3 12 12 true">>,
       <<"CH_MiniMission3Hard", "LevelsCH.swf/a_Level_CHMini3 27 12 true Hard">>,
       <<"CH_MiniMission4", "LevelsCH.swf/a_Level_CHMini4 12 12 true">>,
       <<"CH_MiniMission4Hard", "LevelsCH.swf/a_Level_CHMini4 27 12 true Hard">>,
       <<"CH_MiniMission5", "LevelsCH.swf/a_Level_CHMini5 13 13 true">>,
       <<"CH_MiniMission5Hard", "LevelsCH.swf/a_Level_CHMini5 28 13 true Hard">>,
       <<"CH_MiniMission6", "LevelsCH.swf/a_Level_CHMini6 13 13 true">>,
       <<"CH_MiniMission6Hard", "LevelsCH.swf/a_Level_CHMini6 28 13 true Hard">>,
       <<"CH_MiniMission7", "LevelsCH.swf/a_Level_CHMini7 14 14 true">>,
       <<"CH_MiniMission7Hard", "LevelsCH.swf/a_Level_CHMini7 29 14 true Hard">>,
       <<"CH_MiniMission8", "LevelsCH.swf/a_Level_CHMini8 14 14 true">>,
       <<"CH_MiniMission8Hard", "LevelsCH.swf/a_Level_CHMini8 29 14 true Hard">>,
       <<"0CH_MiniMission9", "LevelsCH.swf/a_Level_CHMini9 15 15 true">>,
       <<"0CH_MiniMission9Hard", "LevelsCH.swf/a_Level_CHMini9 30 15 true Hard">>,
       <<"--------STORMSHARD------------", "">>,
       <<"OldMineMountain", "LevelsOMM.swf/a_Level_OldMineMountain 16 16 false">>,
       <<"OldMineMountainHard", "LevelsOMM.swf/a_Level_OldMineMountain 31 16 false Hard">>,
       <<"OMM_Mission1", "LevelsOMM.swf/a_Level_OMMMission01GiveVoiceToStone 16 16 true">>,
       <<"OMM_Mission1Hard", "LevelsOMM.swf/a_Level_OMMMission01GiveVoiceToStone 31 16 true Hard">>,
       <<"OMM_Mission2", "LevelsOMM.swf/a_Level_OMMMission02RockHulkGarden 16 16 true">>,
       <<"OMM_Mission2Hard", "LevelsOMM.swf/a_Level_OMMMission02RockHulkGarden 31 16 true Hard">>,
       <<"OMM_Mission3", "LevelsOMM.swf/a_Level_OMMMission03EyeOfTheTyrant 16 16 true">>,
       <<"OMM_Mission3Hard", "LevelsOMM.swf/a_Level_OMMMission03EyeOfTheTyrant 31 16 true Hard">>,
       <<"OMM_Mission4", "LevelsOMM.swf/a_Level_OMMMission04AbandonedArmory 17 17 true">>,
       <<"OMM_Mission4Hard", "LevelsOMM.swf/a_Level_OMMMission04AbandonedArmory 32 17 true Hard">>,
       <<"OMM_Mission5", "LevelsOMM.swf/a_Level_OMMMission05HuntedToTheEdge 17 17 true">>,
       <<"OMM_Mission5Hard", "LevelsOMM.swf/a_Level_OMMMission05HuntedToTheEdge 32 17 true Hard">>,
       <<"OMM_Mission6", "LevelsOMM.swf/a_Level_OMMMission06ForgottenForge 17 17 true">>,
       <<"OMM_Mission6Hard", "LevelsOMM.swf/a_Level_OMMMission06ForgottenForge 32 17 true Hard">>,
       <<"OMM_Mission7", "LevelsOMM.swf/a_Level_OMMMission07GriffinsRedoubt 17 17 true">>,
       <<"OMM_Mission7Hard", "LevelsOMM.swf/a_Level_OMMMission07GriffinsRedoubt 32 17 true Hard">>,
       <<"OMM_Mission8", "LevelsOMM.swf/a_Level_OMMMission08BloodInTheVeins 18 18 true">>,
       <<"OMM_Mission8Hard", "LevelsOMM.swf/a_Level_OMMMission08BloodInTheVeins 33 18 true Hard">>,
       <<"OMM_Mission9", "LevelsOMM.swf/a_Level_OMMMission09GrahlsRebellion 18 18 true">>,
       <<"OMM_Mission9Hard", "LevelsOMM.swf/a_Level_OMMMission09GrahlsRebellion 33 18 true Hard">>,
       <<"OMM_Mission10", "LevelsOMM.swf/a_Level_OMMMission10DragonsQuarry 18 18 true">>,
       <<"OMM_Mission10Hard", "LevelsOMM.swf/a_Level_OMMMission10DragonsQuarry 33 18 true Hard">>,
       <<"OMM_Mission11", "LevelsOMM.swf/a_Level_OMMMission11CutToTheHeart 18 18 true">>,
       <<"OMM_Mission11Hard", "LevelsOMM.swf/a_Level_OMMMission11CutToTheHeart 33 18 true Hard">>,
       <<"OMM_Mission12", "LevelsOMM.swf/a_Level_OMMMission12MeylourFinale 21 21 true">>,
       <<"OMM_Mission12Hard", "LevelsOMM.swf/a_Level_OMMMission12MeylourFinale 36 21 true Hard">>,
       <<"--------EMERALD GLADES-----------", "">>,
       <<"EmeraldGlades", "LevelsEG.swf/a_Level_EmeraldGlade 19 19 false">>,
       <<"EmeraldGladesHard", "LevelsEG.swf/a_Level_EmeraldGlade 34 19 false Hard">>,
       <<"EG_Mission1", "LevelsEG.swf/a_Level_EGMission1 19 19 true">>,
       <<"EG_Mission1Hard", "LevelsEG.swf/a_Level_EGMission1 34 19 true Hard">>,
       <<"EG_Mission2", "LevelsEG.swf/a_Level_EGMission2 19 19 true">>,
       <<"EG_Mission2Hard", "LevelsEG.swf/a_Level_EGMission2 34 19 true Hard">>,
       <<"EG_Mission3", "LevelsEG.swf/a_Level_EGMission3 20 20 true">>,
       <<"EG_Mission3Hard", "LevelsEG.swf/a_Level_EGMission3 35 20 true Hard">>,
       <<"EG_Mission4", "LevelsEG.swf/a_Level_EGMission4 20 20 true">>,
       <<"G_Mission4Hard", "LevelsEG.swf/a_Level_EGMission4 35 20 true Hard">>,
       <<"EG_Mission5", "LevelsEG.swf/a_Level_EGMission5 20 20 true">>,
       <<"EG_Mission5Hard", "LevelsEG.swf/a_Level_EGMission5 35 20 true Hard">>,
       <<"--------DEEPGARD CASTLE------------", "">>,
       <<"Castle", "LevelsAC.swf/a_Level_DeepgardCastle 21 21 false">>,
       <<"CastleHard", "LevelsAC.swf/a_Level_DeepgardCastle 36 21 false Hard">>,
       <<"AC_Mission1", "LevelsAC.swf/a_Level_DeepgardDragon 21 21 true">>,
       <<"AC_Mission1Hard", "LevelsAC.swf/a_Level_DeepgardDragon 36 21 true Hard">>,
       <<"AC_Mission2", "LevelsAC.swf/a_Level_TheEmeraldThrone 21 21 true">>,
       <<"AC_Mission2Hard", "LevelsAC.swf/a_Level_TheEmeraldThrone 36 21 true Hard">>,
       <<"AC_Mission3", "LevelsAC.swf/a_Level_BattlesLostAndWon 21 21 true">>,
       <<"AC_Mission3Hard", "LevelsAC.swf/a_Level_BattlesLostAndWon 36 21 true Hard">>,
       <<"AC_Mission4", "LevelsAC.swf/a_Level_AethericObservatory 22 22 true">>,
       <<"AC_Mission4Hard", "LevelsAC.swf/a_Level_AethericObservatory 37 22 true Hard">>,
       <<"AC_Mission5", "LevelsAC.swf/a_Level_Ramparts 22 22 true">>,
       <<"AC_Mission5Hard", "LevelsAC.swf/a_Level_Ramparts 37 22 true Hard">>,
       <<"AC_Mission6", "LevelsAC.swf/a_Level_Capstone 22 22 true">>,
       <<"AC_Mission6Hard", "LevelsAC.swf/a_Level_Capstone 37 22 true Hard">>,
       <<"--------SHAZARI DESERT------------", "">>,
       <<"ShazariDesert", "LevelsSD.swf/a_Level_ShazariDesert 23 23 false">>,
       <<"ShazariDesertHard", "LevelsSD.swf/a_Level_ShazariDesert 38 23 false Hard">>,
       <<"SD_Mission1", "LevelsSD.swf/a_Level_SDMission1 23 23 true">>,
       <<"SD_Mission1Hard", "LevelsSD.swf/a_Level_SDMission1 38 23 true Hard">>,
       <<"SD_Mission2", "LevelsSD.swf/a_Level_SDMission2 23 23 true">>,
       <<"SD_Mission2Hard", "LevelsSD.swf/a_Level_SDMission2 38 23 true Hard">>,
       <<"SD_Mission3", "LevelsSD.swf/a_Level_SDMission3 24 24 true">>,
       <<"SD_Mission3Hard", "LevelsSD.swf/a_Level_SDMission3 39 24 true Hard">>,
       <<"SD_Mission4", "LevelsSD.swf/a_Level_SDMission4 24 24 true">>,
       <<"SD_Mission4Hard", "LevelsSD.swf/a_Level_SDMission4 39 24 true Hard">>,
       <<"SD_Mission5", "LevelsSD.swf/a_Level_SDMission5 25 25 true">>,
       <<"SD_Mission5Hard", "LevelsSD.swf/a_Level_SDMission5 40 25 true Hard">>,
       <<"SD_Mission6", "LevelsSD.swf/a_Level_SDMission6 25 25 true">>,
       <<"SD_Mission6Hard", "LevelsSD.swf/a_Level_SDMission6 40 25 true Hard">>,
       <<"SD_Tales1Escort", "TalesSD.swf/a_Level_SDTales1Escort 44 29 true">>,
       <<"SD_Tales2Surprise", "TalesSD.swf/a_Level_SDTales2Surprise 44 29 true">>,
       <<"SD_Tales3Remodel", "TalesSD.swf/a_Level_SDTales3Remodel 44 29 true">>,
       <<"SD_Tales4Oasis", "TalesSD.swf/a_Level_SDTales4Oasis 44 29 true">>,
       <<"SD_Tales5Defense", "TalesSD.swf/a_Level_SDTales5Defense 44 29 true">>,
       <<"SD_Tales6Time", "TalesSD.swf/a_Level_SDTales6Time 44 29 true">>,
       <<"--------VALHAVEN------------", "">>,
       <<"JadeCity", "LevelsJC.swf/a_Level_JadeCity 26 26 false">>,
       <<"JadeCityHard", "LevelsJC.swf/a_Level_JadeCity 41 26 false Hard">>,
       <<"JC_Mission1", "LevelsJC.swf/a_Level_JCMission1 26 26 true">>,
       <<"JC_Mission1Hard", "LevelsJC.swf/a_Level_JCMission1 41 26 true Hard">>,
       <<"JC_Mission2", "LevelsJC.swf/a_Level_JCMission2 27 27 true">>,
       <<"JC_Mission2Hard", "LevelsJC.swf/a_Level_JCMission2 42 27 true Hard">>,
       <<"JC_Mission3", "LevelsJC.swf/a_Level_JCMission3 27 27 true">>,
       <<"JC_Mission3Hard", "LevelsJC.swf/a_Level_JCMission3 42 27 true Hard">>,
       <<"JC_Mission4", "LevelsJC.swf/a_Level_JCMission4 28 28 true">>,
       <<"JC_Mission4Hard", "LevelsJC.swf/a_Level_JCMission4 43 28 true Hard">>,
       <<"JC_Mission5", "LevelsJC.swf/a_Level_JCMission5 28 28 true">>,
       <<"JC_Mission5Hard", "LevelsJC.swf/a_Level_JCMission5 43 28 true Hard">>,
       <<"JC_Mission6", "LevelsJC.swf/a_Level_JCMission6 29 29 true">>,
       <<"JC_Mission6Hard", "LevelsJC.swf/a_Level_JCMission6 44 29 true Hard">>,
       <<"JC_Mission7", "LevelsJC.swf/a_Level_JCMission7 30 30 true">>,
       <<"JC_Mission7Hard", "LevelsJC.swf/a_Level_JCMission7 45 30 true Hard">>,
       <<"JC_Mission8", "LevelsJC.swf/a_Level_JCMission8 29 29 true">>,
       <<"JC_Mission8Hard", "LevelsJC.swf/a_Level_JCMission8 44 29 true Hard">>,
       <<"JC_Mission9", "LevelsJC.swf/a_Level_JCMission9 28 28 true">>,
       <<"JC_Mission9Hard", "LevelsJC.swf/a_Level_JCMission9 43 28 true Hard">>,
       <<"JC_Mission10", "LevelsJC.swf/a_Level_JCMission10 28 28 true">>,
       <<"JC_Mission10Hard", "LevelsJC.swf/a_Level_JCMission10 43 28 true Hard">>,
       <<"JC_Mission11", "LevelsJC.swf/a_Level_JCMission11 27 27 true">>,
       <<"JC_Mission11Hard", "LevelsJC.swf/a_Level_JCMission11 42 27 true Hard">>,
       <<"JC_Mini1", "LevelsJC.swf/a_Level_JCMini1 29 29 true">>,
       <<"JC_Mini1Hard", "LevelsJC.swf/a_Level_JCMini1 44 29 true Hard">>,
       <<"JC_Mini2", "LevelsJC.swf/a_Level_JCMini2 29 29 true">>,
       <<"JC_Mini2Hard", "LevelsJC.swf/a_Level_JCMini2 44 29 true Hard">>,
       <<"--------PROTOTYPES------------", "">> >>

UPPERCASE == "ABCDEFGHIJKLMNOPQRSTUVWXYZ"

LOWERCASE == "abcdefghijklmnopqrstuvwxyz"

DIGITS == "0123456789"

RECURSIVE SplitFrom(_, _, _)
\* the words of s from position i on, word being the run read so far
SplitFrom(s, i, word) ==
    IF i > Len(s)
    THEN IF word = "" THEN <<>> ELSE <<word>>
    ELSE IF SubSeq(s, i, i) = " "
         THEN (IF word = "" THEN <<>> ELSE <<word>>) \o SplitFrom(s, i + 1, "")
         ELSE SplitFrom(s, i + 1, word \o SubSeq(s, i, i))

\* str.split(): the maximal runs of non-blank characters
split(s) == SplitFrom(s, 1, "")

RECURSIVE lower(_)
\* str.lower()
lower(s) ==
    IF s = "" THEN ""
    ELSE LET c == SubSeq(s, 1, 1)
             up == { i \in 1..Len(UPPERCASE) : SubSeq(UPPERCASE, i, i) = c }
         IN  (IF up = {} THEN c
              ELSE LET i == CHOOSE i \in up : TRUE IN SubSeq(LOWERCASE, i, i))
             \o lower(SubSeq(s, 2, Len(s)))

RECURSIVE int(_)
\* int() of a string of decimal digits
int(s) ==
    IF s = "" THEN 0
    ELSE 10 * int(SubSeq(s, 1, Len(s) - 1))
         + (CHOOSE d \in 0..9 : SubSeq(DIGITS, d + 1, d + 1) = SubSeq(s, Len(s), Len(s)))

\* the rows of the table that the loop does not skip
ConfigRows ==
    { i \in 1..Len(raw_level_config) :
        LET parts == split(raw_level_config[i][2])
        IN  ~(Len(parts) < 4 \/ parts[1] = "") }

\* LEVEL_CONFIG[name] = (swf_path, map_lvl, base_lvl, is_inst)
LEVEL_CONFIG ==
    [name \in { raw_level_config[i][1] : i \in ConfigRows } |->
        LET i == CHOOSE i \in ConfigRows : raw_level_config[i][1] = name
            parts == split(raw_level_config[i][2])
        IN  <<parts[1], int(parts[2]), int(parts[3]), lower(parts[4]) = "true">>]

----------------------------------------------------------------------------
(* position_tracker.py: mission levels *)

\* sub in s
Contains(sub, s) ==
    \E i \in 1..(Len(s) - Len(sub) + 1) : SubSeq(s, i, i + Len(sub) - 1) = sub

world_levels ==
    {"CraftTown", "CraftTownTutorial", "BridgeTown", "BridgeTownHard",
     "NewbieRoad", "NewbieRoadHard", "CemeteryHill", "CemeteryHillHard",
     "Castle", "CastleHard", "LavaLands", "LavaLandsHard"}

mission_keywords ==
    {"Mission", "Dungeon", "Arena", "Boss", "Elite", "Challenge", "Raid", "Instance"}

\* is_mission_level with the level table consulted before the list of world levels
is_mission_level_FlagFirst(level_name) ==
    IF level_name \in DOMAIN LEVEL_CONFIG THEN LEVEL_CONFIG[level_name][4]
    ELSE IF level_name \in world_levels THEN FALSE
    ELSE IF \E keyword \in mission_keywords : Contains(keyword, level_name) THEN TRUE
    ELSE Contains("Tutorial", level_name) /\ level_name # "CraftTownTutorial"

\* PositionTracker.is_mission_level
is_mission_level(level_name) ==
    IF level_name \in world_levels THEN FALSE
    ELSE IF \E keyword \in mission_keywords : Contains(keyword, level_name) THEN TRUE
    ELSE IF Contains("Tutorial", level_name) /\ level_name # "CraftTownTutorial" THEN TRUE
    ELSE IF level_name \in DOMAIN LEVEL_CONFIG
         THEN LEVEL_CONFIG[level_name][4] /\ level_name \notin world_levels
    ELSE FALSE

\* the names asked about: every key of the table, and names outside it
LevelNames ==
    { raw_level_config[i][1] : i \in 1..Len(raw_level_config) }
    \cup {"LavaLands", "LavaLandsHard", "AC_Mission2Hard", "GoblinRiverDungeon",
          "Nowhere", "mission", "TutorialIsland", "Tutoria", "BridgeTownArena", ""}

\* tracker.is_mission_level(current_level)
CheckLevel ==
    /\ hist = <<>>
    /\ hist' = <<[op |-> "is_mission_level", args |-> current_level,
                  result |-> is_mission_level(current_level)]>>
    /\ UNCHANGED <<characters, current_character, current_level, peers, disk, budget,
                   file, conns,
                   session, mission_positions, position_file,
                   active_sessions, position_loggers, threads, starting>>

InitLevels ==
    /\ characters = <<>>
    /\ current_character = "hero"
    /\ current_level \in LevelNames
    /\ peers = <<>>
    /\ disk = <<>>
    /\ file = <<>>
    /\ conns = <<>>
    /\ session = <<>>
    /\ mission_positions = <<>>
    /\ position_file = <<>>
    /\ NoLoggers
    /\ hist = <<>>
    /\ budget = 0

NextLevels == CheckLevel

SpecLevels == InitLevels /\ [][NextLevels]_vars

----------------------------------------------------------------------------
(* position_tracker.py: positions saved, restored and updated *)

\* None where a level name is expected
NoLevel == "None"

\* {'x': None, 'y': None, 'z': None, 'level': None, 'timestamp': None}
BlankPosition ==
    [x |-> None, y |-> None, z |-> None, level |-> NoLevel, timestamp |-> None]

\* the same with 'missionEntered': None
BlankEntry ==
    [x |-> None, y |-> None, z |-> None, level |-> NoLevel, timestamp |-> None,
     missionEntered |-> NoLevel]

\* the positionTracking block created when the character has none
BlankTracking ==
    [lastWorldPosition |-> BlankPosition, currentPosition |-> BlankPosition,
     missionEntryPosition |-> BlankEntry, positionLoggingEnabled |-> TRUE]

\* a session with a character: current_char_dict is <<>> for None and holds
\* the dict otherwise, whose positionTracking is <<>> while the key is absent
MockSession(user_id, entities, char_dict) ==
    [user_id |-> user_id, clientEntID |-> 12345, entities |-> entities,
     current_char_dict |-> char_dict]

\* positionTracking of the character, created when it is missing
Tracking(s) ==
    IF s.current_char_dict[1].positionTracking = <<>> THEN BlankTracking
    ELSE s.current_char_dict[1].positionTracking[1]

\* char_dict['positionTracking'][key] = value
SetTracking(s, key, value) ==
    [s EXCEPT !.current_char_dict[1].positionTracking =
                  <<[Tracking(s) EXCEPT ![key] = value]>>]

\* PositionTracker.get_player_position
get_player_position(s, level) ==
    IF s.clientEntID \in DOMAIN s.entities
    THEN LET entity == s.entities[s.clientEntID]
         IN  <<entity.x, entity.y, entity.z, level>>
    ELSE <<36000, 145899, 0, level>>

\* mission_positions[user_id] = entry
PutPosition(positions, user_id, entry) ==
    [u \in DOMAIN positions \cup {user_id} |->
        IF u = user_id THEN entry ELSE positions[u]]

\* what a call leaves: the session, the saved positions, whether
\* position_data.json was written, and the value returned
Outcome(s, positions, written, result) ==
    [session |-> s, mission_positions |-> positions, written |-> written,
     result |-> result]

\* save_pre_mission_position without the test of the current level
save_pre_mission_position_FromMission(s, level, positions, target_level, now) ==
    IF s.user_id = "" THEN Outcome(s, positions, FALSE, <<>>)
    ELSE IF ~is_mission_level(target_level) THEN Outcome(s, positions, FALSE, <<>>)
    ELSE LET pos == get_player_position(s, level)
             saved == [x |-> pos[1], y |-> pos[2], z |-> pos[3], level |-> level,
                       saved_at |-> now, mission_entered |-> target_level]
             entry == [x |-> pos[1], y |-> pos[2], z |-> pos[3], level |-> level,
                       timestamp |-> now, missionEntered |-> target_level]
         IN  Outcome(IF s.current_char_dict = <<>> THEN s
                     ELSE SetTracking(s, "missionEntryPosition", entry),
                     PutPosition(positions, s.user_id, saved), TRUE, <<>>)

\* PositionTracker.save_pre_mission_position
save_pre_mission_position(s, level, positions, target_level, now) ==
    IF s.user_id = "" THEN Outcome(s, positions, FALSE, <<>>)
    ELSE IF is_mission_level(level) THEN Outcome(s, positions, FALSE, <<>>)
    ELSE IF ~is_mission_level(target_level) THEN Outcome(s, positions, FALSE, <<>>)
    ELSE LET pos == get_player_position(s, level)
             saved == [x |-> pos[1], y |-> pos[2], z |-> pos[3], level |-> level,
                       saved_at |-> now, mission_entered |-> target_level]
             entry == [x |-> pos[1], y |-> pos[2], z |-> pos[3], level |-> level,
                       timestamp |-> now, missionEntered |-> target_level]
         IN  Outcome(IF s.current_char_dict = <<>> THEN s
                     ELSE SetTracking(s, "missionEntryPosition", entry),
                     PutPosition(positions, s.user_id, saved), TRUE, <<>>)

\* the character holds a mission entry position whose x is not None
HasEntry(s) ==
    /\ s.current_char_dict # <<>>
    /\ s.current_char_dict[1].positionTracking # <<>>
    /\ Tracking(s).missionEntryPosition.x # None

\* the fallback of restore_pre_mission_position: the saved positions of the tracker
RestoredFromGlobal(s, positions) ==
    IF s.user_id \notin DOMAIN positions THEN Outcome(s, positions, FALSE, <<>>)
    ELSE LET position_data == positions[s.user_id]
         IN  Outcome(s, positions, FALSE,
                     <<position_data.x, position_data.y, position_data.z,
                       position_data.level>>)

\* restore_pre_mission_position that leaves the entry in the character
restore_pre_mission_position_KeepsEntry(s, positions) ==
    IF s.user_id = "" THEN Outcome(s, positions, FALSE, <<>>)
    ELSE IF HasEntry(s)
    THEN LET mission_pos == Tracking(s).missionEntryPosition
         IN  Outcome(s, positions, FALSE,
                     <<mission_pos.x, mission_pos.y, mission_pos.z, mission_pos.level>>)
    ELSE RestoredFromGlobal(s, positions)

\* PositionTracker.restore_pre_mission_position
restore_pre_mission_position(s, positions) ==
    IF s.user_id = "" THEN Outcome(s, positions, FALSE, <<>>)
    ELSE IF HasEntry(s)
    THEN LET mission_pos == Tracking(s).missionEntryPosition
         IN  Outcome(SetTracking(s, "missionEntryPosition", BlankEntry), positions, FALSE,
                     <<mission_pos.x, mission_pos.y, mission_pos.z, mission_pos.level>>)
    ELSE RestoredFromGlobal(s, positions)

\* PositionTracker.clear_saved_position
clear_saved_position(s, positions) ==
    IF s.user_id = "" THEN Outcome(s, positions, FALSE, <<>>)
    ELSE IF s.user_id \in DOMAIN positions
    THEN Outcome(s, [u \in DOMAIN positions \ {s.user_id} |-> positions[u]], TRUE, <<>>)
    ELSE Outcome(s, positions, FALSE, <<>>)

\* entity['x'] = x; entity['y'] = y; entity['z'] = z
MovedEntity(s, x, y, z) ==
    IF s.clientEntID \in DOMAIN s.entities
    THEN [s EXCEPT !.entities[s.clientEntID] = [@ EXCEPT !.x = x, !.y = y, !.z = z]]
    ELSE s

\* update_player_position writing lastWorldPosition in every level
update_player_position_AlwaysWorld(s, level, positions, x, y, z, now) ==
    LET moved == MovedEntity(s, x, y, z)
        here == [x |-> x, y |-> y, z |-> z, level |-> level, timestamp |-> now]
    IN  IF s.current_char_dict = <<>> THEN Outcome(moved, positions, FALSE, <<>>)
        ELSE Outcome(SetTracking(SetTracking(moved, "currentPosition", here),
                                 "lastWorldPosition", here),
                     positions, FALSE, <<>>)

\* PositionTracker.update_player_position
update_player_position(s, level, positions, x, y, z, now) ==
    LET moved == MovedEntity(s, x, y, z)
        here == [x |-> x, y |-> y, z |-> z, level |-> level, timestamp |-> now]
    IN  IF s.current_char_dict = <<>> THEN Outcome(moved, positions, FALSE, <<>>)
        ELSE IF ~is_mission_level(level)
        THEN Outcome(SetTracking(SetTracking(moved, "currentPosition", here),
                                 "lastWorldPosition", here),
                     positions, FALSE, <<>>)
        ELSE Outcome(SetTracking(moved, "currentPosition", here), positions, FALSE, <<>>)

----------------------------------------------------------------------------
(* The position tracker: inputs *)

\* a world level, a mission by its name and a mission by the table's flag alone
TrackerLevels == {"BridgeTown", "TutorialDungeon", "NR_Tales1Keep"}

\* the coordinates a client reports, in hundredths
Coordinates == {<<50000, 30000, 1000>>, <<100000, 50000, 2000>>}

\* the player's entity as the session holds it
PlayerEntity == [x |-> 36000, y |-> 145899, z |-> 0]

\* a position saved by an earlier visit to a mission
EarlierSaved ==
    [x |-> 75000, y |-> 25000, z |-> 500, level |-> "BridgeTown", saved_at |-> 0,
     mission_entered |-> "TutorialDungeon"]

\* the same as the character holds it
EarlierEntry ==
    [x |-> 75000, y |-> 25000, z |-> 500, level |-> "BridgeTown", timestamp |-> 0,
     missionEntered |-> "TutorialDungeon"]

\* no character, a character without positionTracking, one with a blank
\* block and one that holds an entry
CharDicts ==
    {<<>>,
     <<[name |-> "TestChar", positionTracking |-> <<>>]>>,
     <<[name |-> "TestChar", positionTracking |-> <<BlankTracking>>]>>,
     <<[name |-> "TestChar",
        positionTracking |->
            <<[BlankTracking EXCEPT !.missionEntryPosition = EarlierEntry]>>]>>}

\* the sessions the tracker is called with: a user with or without an entity
\* and with any of the characters, and a session that has no user id yet
Sessions ==
    { MockSession("test_user", entities, char_dict) :
        entities \in {<<>>, [id \in {12345} |-> PlayerEntity]},
        char_dict \in CharDicts }
    \cup { MockSession("", [id \in {12345} |-> PlayerEntity], char_dict) :
              char_dict \in CharDicts \ {<<>>} }

\* the time of the call: the number of the call
Now == Len(hist) + 1

----------------------------------------------------------------------------
(* The position tracker: one session *)

\* the tracker ran op on args and ended with res
Tracked(op, args, res) ==
    /\ budget' = budget - 1
    /\ session' = res.session
    /\ mission_positions' = res.mission_positions
    /\ position_file' = IF res.written
                        THEN [mission_positions |-> res.mission_positions,
                              last_updated |-> Now]
                        ELSE position_file
    /\ hist' = Append(hist, [op |-> op, args |-> args, level |-> current_level,
                             pre |-> [session |-> session,
                                      mission_positions |-> mission_positions],
                             post |-> [session |-> res.session,
                                       mission_positions |-> res.mission_positions],
                             result |-> res.result])
    /\ UNCHANGED <<characters, current_character, current_level, peers, disk, file,
                   conns, logger_vars>>

SavePreMission ==
    /\ budget > 0
    /\ \E target_level \in TrackerLevels :
          Tracked("save_pre_mission_position", [target_level |-> target_level],
                  save_pre_mission_position(session, current_level, mission_positions,
                                            target_level, Now))

RestorePreMission ==
    /\ budget > 0
    /\ Tracked("restore_pre_mission_position", <<>>,
               restore_pre_mission_position(session, mission_positions))

ClearSavedPosition ==
    /\ budget > 0
    /\ Tracked("clear_saved_position", <<>>,
               clear_saved_position(session, mission_positions))

UpdatePlayerPosition ==
    /\ budget > 0
    /\ \E p \in Coordinates :
          Tracked("update_player_position", [x |-> p[1], y |-> p[2], z |-> p[3]],
                  update_player_position(session, current_level, mission_positions,
                                         p[1], p[2], p[3], Now))

\* session.current_level = level: the player is moved to another level
ChangeLevel ==
    /\ budget > 0
    /\ \E level \in TrackerLevels \ {current_level} :
          /\ current_level' = level
          /\ budget' = budget - 1
          /\ hist' = Append(hist, [op |-> "current_level", args |-> [level |-> level],
                                   level |-> current_level,
                                   pre |-> [session |-> session,
                                            mission_positions |-> mission_positions],
                                   post |-> [session |-> session,
                                             mission_positions |-> mission_positions],
                                   result |-> <<>>])
    /\ UNCHANGED <<characters, current_character, peers, disk, file, conns, session,
                   mission_positions, position_file,
                   active_sessions, position_loggers, threads, starting>>

\* load_position_data: the tracker starts from position_data.json, which is
\* missing or holds what an earlier run saved
InitTracker ==
    /\ characters = <<>>
    /\ current_character = "TestChar"
    /\ current_level \in TrackerLevels
    /\ peers = <<>>
    /\ disk = <<>>
    /\ file = <<>>
    /\ conns = <<>>
    /\ session \in Sessions
    /\ \E saved \in {<<>>, [u \in {"test_user"} |-> EarlierSaved]} :
          /\ mission_positions = saved
          /\ position_file = [mission_positions |-> saved, last_updated |-> 0]
    /\ NoLoggers
    /\ hist = <<>>
    /\ budget = TrackerSteps

NextTracker ==
    SavePreMission \/ RestorePreMission \/ ClearSavedPosition \/ UpdatePlayerPosition
    \/ ChangeLevel

SpecTracker == InitTracker /\ [][NextTracker]_vars

----------------------------------------------------------------------------
(* Reading the history *)

\* the save document after the k-th packet was handled
PostDoc(k) == IF k < Len(hist) THEN hist[k + 1].pre ELSE Doc(characters)

\* the active character in a save document
ActiveChar(doc) == doc[FindChar(doc, current_character)]

PreChar(k) == ActiveChar(hist[k].pre)

PostChar(k) == ActiveChar(PostDoc(k))

\* the handler of the k-th packet wrote the save it left behind
Persisted(k) ==
    /\ Writes(hist[k].events) # <<>>
    /\ Writes(hist[k].events)[Len(Writes(hist[k].events))].body = PostDoc(k)

\* the k-th packet was handled by op for a character of the save
Ran(k, op) == k \in 1..Len(hist) /\ hist[k].op = op /\ hist[k].found

RECURSIVE SumCounts(_)
SumCounts(entries) ==
    IF entries = <<>> THEN 0 ELSE Head(entries).count + SumCounts(Tail(entries))

\* units of charm id in a charm list (absent counts as 0)
CharmCount(charms, id) ==
    LET IsCharm(e) == e.charmID = id
    IN  SumCounts(SelectSeq(charms, IsCharm))

MaterialCount(mats, id) ==
    LET IsMat(e) == e.materialID = id
    IN  SumCounts(SelectSeq(mats, IsMat))

ConsumableCount(cons, id) ==
    LET IsCons(e) == e.consumableID = id
    IN  SumCounts(SelectSeq(cons, IsCons))

CharmIds(charms) == {charms[i].charmID : i \in 1..Len(charms)}

MaterialIds(mats) == {mats[i].materialID : i \in 1..Len(mats)}

ConsumableIds(cons) == {cons[i].consumableID : i \in 1..Len(cons)}

\* the session fields of a forge with no session
ForgeCleared(mf) ==
    /\ mf.hasSession = FALSE
    /\ mf.primary = 0 /\ mf.secondary = 0 /\ mf.duration = 0 /\ mf.status = 0

----------------------------------------------------------------------------
(* Claims about the magic forge *)

\* start from an idle forge with a positive primary, then an affordable
\* speed-up, then collect, as packets k, k+1, k+2
HappyPath(k) ==
    /\ k + 2 <= Len(hist)
    /\ Ran(k, "start_forge") /\ ~PreChar(k).magicForge.hasSession
    /\ hist[k].args.primary > 0
    /\ Ran(k + 1, "speed_up") /\ hist[k + 1].args.idols <= PreChar(k + 1).mammothIdols
    /\ Ran(k + 2, "collect")

\* C3: from an idle forge, start(p > 0), speed-up with spend <= balance, then
\* collect adds exactly one unit of charm p, changes no other charm count and
\* ends with hasSession = FALSE; the forge is InProgress after the start and
\* Completed with duration 0 after the speed-up.
C3_ForgeHappyPath ==
    \A k \in 1..Len(hist) :
        HappyPath(k) =>
            LET p == hist[k].args.primary
                before == PreChar(k).charms
                after == PostChar(k + 2).charms
            IN  /\ PostChar(k).magicForge.hasSession
                /\ PostChar(k).magicForge.status = const_286
                /\ PostChar(k + 1).magicForge.hasSession
                /\ PostChar(k + 1).magicForge.status = const_264
                /\ PostChar(k + 1).magicForge.duration = 0
                /\ PostChar(k + 2).magicForge.hasSession = FALSE
                /\ \A id \in CharmIds(before) \cup CharmIds(after) \cup {p} :
                      CharmCount(after, id) =
                          CharmCount(before, id) + (IF id = p THEN 1 ELSE 0)

\* the happy path ran on a character that had no charm of the primary id
C3_Witness ==
    \E k \in 1..Len(hist) :
        /\ HappyPath(k)
        /\ CharmCount(PreChar(k).charms, hist[k].args.primary) = 0
        /\ PreChar(k).charms = <<>>

\* C4: a cancel request in any forge state clears hasSession, primary,
\* secondary, duration and status, persists the save, and leaves materials,
\* consumables, charms and mammothIdols as they were.
C4_CancelClearsWithoutRefund ==
    \A k \in 1..Len(hist) :
        Ran(k, "cancel") =>
            /\ ForgeCleared(PostChar(k).magicForge)
            /\ Persisted(k)
            /\ PostChar(k).materials = PreChar(k).materials
            /\ PostChar(k).consumables = PreChar(k).consumables
            /\ PostChar(k).charms = PreChar(k).charms
            /\ PostChar(k).mammothIdols = PreChar(k).mammothIdols

\* a session that had spent materials and idols was cancelled when Completed
C4_Witness ==
    \E k \in 1..Len(hist) :
        /\ Ran(k, "cancel")
        /\ PreChar(k).magicForge.hasSession
        /\ PreChar(k).magicForge.status = const_264
        /\ PreChar(k).magicForge.primary = 7
        /\ PreChar(k).mammothIdols < 10
        /\ MaterialCount(PreChar(k).materials, 12) = 2

\* the decoded materials of a start request as a mapping id -> units
UsedUnits(pairs, id) ==
    LET IsId(e) == e.id = id
        mine == SelectSeq(pairs, IsId)
    IN  mine[Len(mine)].count

PairIds(pairs) == {pairs[i].id : i \in 1..Len(pairs)}

FlaggedIds(flags) == {consumable_ids[i] : i \in {j \in 1..4 : flags[j] # 0}}

\* C5: a start request sets each listed material to max(0, c - u) (a missing
\* one is recorded with count 0), takes one unit, clamped at 0, of exactly the
\* flagged consumables, leaves every other material and consumable unchanged,
\* and opens the session: hasSession, primary = p, InProgress, duration 60000.
C5_StartDeductsAndOpens ==
    \A k \in 1..Len(hist) :
        Ran(k, "start_forge") =>
            LET a == hist[k].args
                pre == PreChar(k)
                post == PostChar(k)
            IN  /\ \A m \in PairIds(a.pairs) :
                      /\ m \in MaterialIds(post.materials)
                      /\ MaterialCount(post.materials, m) =
                            Max(0, MaterialCount(pre.materials, m) - UsedUnits(a.pairs, m))
                /\ \A m \in MaterialIds(post.materials) \ PairIds(a.pairs) :
                      /\ m \in MaterialIds(pre.materials)
                      /\ MaterialCount(post.materials, m) = MaterialCount(pre.materials, m)
                /\ MaterialIds(pre.materials) \subseteq MaterialIds(post.materials)
                /\ \A c \in FlaggedIds(a.flags) :
                      /\ c \in ConsumableIds(post.consumables)
                      /\ ConsumableCount(post.consumables, c) =
                            Max(0, ConsumableCount(pre.consumables, c) - 1)
                /\ \A c \in ConsumableIds(post.consumables) \ FlaggedIds(a.flags) :
                      /\ c \in ConsumableIds(pre.consumables)
                      /\ ConsumableCount(post.consumables, c) =
                            ConsumableCount(pre.consumables, c)
                /\ ConsumableIds(pre.consumables) \subseteq ConsumableIds(post.consumables)
                /\ post.magicForge.hasSession = TRUE
                /\ post.magicForge.primary = a.primary
                /\ post.magicForge.status = const_286
                /\ post.magicForge.duration = 60000

\* the scenario of the specification: 5 units of material 12, 3 used, 2 left
C5_Witness ==
    \E k \in 1..Len(hist) :
        /\ Ran(k, "start_forge")
        /\ hist[k].args.primary = 7
        /\ hist[k].args.pairs = <<[id |-> 12, count |-> 3]>>
        /\ hist[k].args.flags = <<0, 0, 0, 0>>
        /\ MaterialCount(PreChar(k).materials, 12) = 5
        /\ MaterialCount(PostChar(k).materials, 12) = 2

\* the speed-up of packet k is one the handler accepts
SpeedUpAccepted(k) ==
    /\ PreChar(k).magicForge.hasSession
    /\ PreChar(k).mammothIdols >= hist[k].args.idols

\* C7: a speed-up spending n idols is accepted iff hasSession and
\* mammothIdols >= n; accepted, it takes exactly n idols, sets duration 0 and
\* status Completed, persists and sends one 0xcd reply; refused, it changes
\* nothing, persists nothing and sends nothing.
C7_SpeedUpAcceptedIffFunded ==
    \A k \in 1..Len(hist) :
        Ran(k, "speed_up") =>
            IF SpeedUpAccepted(k)
            THEN /\ PostChar(k).mammothIdols = PreChar(k).mammothIdols - hist[k].args.idols
                 /\ PostChar(k).magicForge.duration = 0
                 /\ PostChar(k).magicForge.status = const_264
                 /\ Persisted(k)
                 /\ Len(Sends(hist[k].events)) = 1
                 /\ Sends(hist[k].events)[1].type = 205
                 /\ Sends(hist[k].events)[1].to = "self"
            ELSE /\ PostDoc(k) = hist[k].pre
                 /\ hist[k].events = <<>>

\* a speed-up that spends the whole balance was accepted
C7_Witness ==
    \E k \in 1..Len(hist) :
        /\ Ran(k, "speed_up")
        /\ SpeedUpAccepted(k)
        /\ hist[k].args.idols = PreChar(k).mammothIdols
        /\ hist[k].args.idols > 0
        /\ PostChar(k).mammothIdols = 0

----------------------------------------------------------------------------
(* Claims about equipment *)

\* an equipped gear has an inventory entry with its id, runes and colors
HasInventoryCopy(g, inv) ==
    \E j \in 1..Len(inv) :
        /\ inv[j].gearID = g.gearID
        /\ inv[j].runes = g.runes
        /\ inv[j].colors = g.colors

EquipInvariant(char) ==
    \A i \in 1..Len(char.equippedGears) :
        char.equippedGears[i].gearID # 0 =>
            HasInventoryCopy(char.equippedGears[i], char.inventoryGears)

\* C1: starting from a character that satisfies it, after any sequence of
\* single-equip, bulk-update and gear-set create/name/apply packets every
\* equipped slot with a non-zero gearID has an inventory entry with the same
\* gearID, runes and colors.
C1_EquipInvariant ==
    /\ EquipInvariant(ActiveChar(Doc(characters)))
    /\ EquipInvariant(ActiveChar(disk))

\* an unknown gear was equipped and a bulk update then changed a slot
C1_Witness ==
    /\ Len(hist) = 2
    /\ Ran(1, "equip") /\ hist[1].args.gear_id = 3 /\ Persisted(1)
    /\ Ran(2, "bulk") /\ Persisted(2) /\ PostDoc(2) # hist[2].pre

\* the value of a gear nobody owns
PlaceholderGear(g) == [gearID |-> g, tier |-> 0, runes |-> <<0, 0, 0>>, colors |-> <<0, 0>>]

HasGear(inv, g) == \E j \in 1..Len(inv) : inv[j].gearID = g

\* C6: equipping gear g into slot k of 1..6: when the inventory has no gear
\* g, the slot becomes the placeholder of g and exactly one identical entry
\* is appended to the inventory; when it has, the slot becomes a copy of that
\* entry and the inventory is unchanged; every other equipped slot is
\* unchanged (a slot the list did not have yet is the zero slot).
C6_EquipOneSlot ==
    \A n \in 1..Len(hist) :
        (Ran(n, "equip") /\ hist[n].args.slot1 \in 1..6) =>
            LET g == hist[n].args.gear_id
                k == hist[n].args.slot1
                pre == PreChar(n)
                post == PostChar(n)
            IN  /\ IF HasGear(pre.inventoryGears, g)
                   THEN /\ post.equippedGears[k] =
                              pre.inventoryGears[FindGear(pre.inventoryGears, g)]
                        /\ post.inventoryGears = pre.inventoryGears
                   ELSE /\ post.equippedGears[k] = PlaceholderGear(g)
                        /\ post.inventoryGears =
                              Append(pre.inventoryGears, PlaceholderGear(g))
                /\ Len(post.equippedGears) = Max(6, Len(pre.equippedGears))
                /\ \A j \in 1..Len(post.equippedGears) :
                      j # k =>
                          post.equippedGears[j] =
                              IF j <= Len(pre.equippedGears)
                              THEN pre.equippedGears[j] ELSE ZeroGear

\* gear 3, which nobody owns, was equipped, and so was owned gear 1 with its
\* runes
C6_Witness ==
    /\ \E n \in 1..Len(hist) :
          /\ Ran(n, "equip") /\ hist[n].args.slot1 = 1 /\ hist[n].args.gear_id = 3
          /\ ~HasGear(PreChar(n).inventoryGears, 3)
    /\ \E n \in 1..Len(hist) :
          /\ Ran(n, "equip") /\ hist[n].args.slot1 = 2 /\ hist[n].args.gear_id = 1
          /\ PostChar(n).equippedGears[2].runes = <<5, 0, 0>>

----------------------------------------------------------------------------
(* Claims about runes *)

\* packets k and k+1 socket a real rune into a rune slot 1..3 of an equipped
\* gear and then use the remover on the same gear and slot
SocketThenRemove(k) ==
    /\ Ran(k, "rune") /\ Ran(k + 1, "rune")
    /\ hist[k].args.rune_id \notin {0, 96}
    /\ hist[k + 1].args.rune_id = 96
    /\ hist[k + 1].args.gear_id = hist[k].args.gear_id
    /\ hist[k + 1].args.gear_tier = hist[k].args.gear_tier
    /\ hist[k + 1].args.rune_slot = hist[k].args.rune_slot
    /\ hist[k].args.rune_slot \in 1..3
    /\ FindEquipped(PreChar(k).equippedGears, hist[k].args.gear_id,
                    hist[k].args.gear_tier) # 0

\* C2: socketing a real rune and then immediately removing it with the
\* remover leaves the count of every charm other than the remover at its
\* value before the socket (absent counts as 0) and changes the count of the
\* remover by at most minus one.
C2_RuneConservation ==
    \A k \in 1..Len(hist) :
        SocketThenRemove(k) =>
            /\ \A id \in (CharmIds(PreChar(k).charms)
                            \cup CharmIds(PostChar(k + 1).charms)
                            \cup {hist[k].args.rune_id}) \ {96} :
                  CharmCount(PostChar(k + 1).charms, id)
                      = CharmCount(PreChar(k).charms, id)
            /\ CharmCount(PostChar(k + 1).charms, 96)
                  \in { CharmCount(PreChar(k).charms, 96),
                        CharmCount(PreChar(k).charms, 96) - 1 }

----------------------------------------------------------------------------
(* Claims about rejected packets *)

\* C9: when no character of the save has the session's active-character
\* name, the handler of any packet writes nothing to durable storage and
\* sends no reply and no broadcast.
C9_NotFoundNoEffect ==
    \A k \in 1..Len(hist) :
        ~hist[k].found => Writes(hist[k].events) = <<>> /\ Sends(hist[k].events) = <<>>

\* the k-th packet fails validation for a character of the save
FailsValidation(k) ==
    \/ /\ Ran(k, "bulk")
       /\ ~ParseSlots(hist[k].args.bits).ok
    \/ /\ Ran(k, "rune")
       /\ \/ FindEquipped(PreChar(k).equippedGears, hist[k].args.gear_id,
                          hist[k].args.gear_tier) = 0
          \/ hist[k].args.rune_slot \notin 1..3
    \/ /\ Ran(k, "name_gearset")
       /\ \/ ReadBits(hist[k].args.bits, 0, 3) >= Len(PreChar(k).gearSets)
          \/ ReadBits(hist[k].args.bits, 3, 16)
                > RemainingBits(hist[k].args.bits, 19) \div 8
    \/ /\ Ran(k, "apply_gearset")
       /\ \/ ReadBits(hist[k].args.bits, 0, const_348) >= Len(PreChar(k).gearSets)
          \/ Len(PreChar(k).equippedGears) # 6

\* C10: a packet that fails validation for an existing character leaves the
\* in-memory character exactly as it was before the packet, persists
\* nothing and sends no reply.
C10_FailedValidationNoEffect ==
    \A k \in 1..Len(hist) :
        FailsValidation(k) =>
            /\ PostChar(k) = PreChar(k)
            /\ Writes(hist[k].events) = <<>>
            /\ Sends(hist[k].events) = <<>>

----------------------------------------------------------------------------
(* Claims about the slot of a single equip *)

\* C11: a single-equip packet whose decoded slot value is outside 1..6 is
\* rejected: no entry of equippedGears or inventoryGears changes, nothing is
\* persisted and no 0x31 reply is sent.
C11_InvalidSlotRejected ==
    \A n \in 1..Len(hist) :
        (Ran(n, "equip") /\ hist[n].args.slot1 \notin 1..6) =>
            /\ PostChar(n).equippedGears = PreChar(n).equippedGears
            /\ PostChar(n).inventoryGears = PreChar(n).inventoryGears
            /\ Writes(hist[n].events) = <<>>
            /\ Sends(hist[n].events) = <<>>

----------------------------------------------------------------------------
(* Claims about the save file *)

\* C12: persisting is atomic with respect to crashes: if the process stops
\* during a handler's persist step, the save file holds either the complete
\* previous document or the complete new document, never an empty or
\* partially written one.
C12_AtomicPersist ==
    \A c \in DOMAIN conns :
        (conns[c].pc = "stopped" /\ conns[c].writing) =>
            \/ file = conns[c].before
            \/ file = Chunks(Head(conns[c].todo).body)

\* the connection is between its lookup and the end of its write
InSection(c) ==
    /\ conns[c].pc \in {"ready", "dump"}
    /\ Head(conns[c].todo).kind = "write"

\* the save after packet p handled on chars
Applied(chars, p) ==
    IF p.op = "rune"
    THEN handle_rune_packet(chars, current_character, p.args.entity_id, p.args.gear_id,
                            p.args.gear_tier, p.args.rune_id, p.args.rune_slot).chars
    ELSE handle_hotbar_packet(chars, current_character, p.args).chars

\* C13: for two connections of the same user handling mutating packets
\* concurrently, the lookup-mutate-persist sections never overlap, so that
\* after both handlers finish the persisted save reflects both mutations.
C13_NoLostUpdate ==
    /\ ~(\E c, d \in DOMAIN conns : c # d /\ InSection(c) /\ InSection(d))
    /\ (/\ DOMAIN conns = Conns
        /\ \A c \in Conns : conns[c].pc = "idle" /\ Len(conns[c].packets) = 1)
          => LET p1 == conns["c1"].packets[1]
                 p2 == conns["c2"].packets[1]
             IN  \/ file = Chunks(Doc(Applied(Applied(characters, p1), p2)))
                 \/ file = Chunks(Doc(Applied(Applied(characters, p2), p1)))

----------------------------------------------------------------------------
(* Claims about the look broadcast *)

\* the other sessions a look change of the session is for
Eligible(p) ==
    p.id # "self" /\ p.world_loaded /\ p.current_level = current_level

\* number of 0x8F packets the k-th handler sent to session id
LooksSentTo(k, id) ==
    LET ToId(e) == e.kind = "send" /\ e.type = 143 /\ e.to = id
    IN  Len(SelectSeq(hist[k].events, ToId))

\* C14: during a look-change broadcast, a failing send to one recipient does
\* not stop the loop and does not fail the handler: every other eligible
\* session still receives the 0x8F packet and the requester's save mutation
\* stays persisted.
C14_BroadcastSurvivesFailure ==
    \A k \in 1..Len(hist) :
        (/\ hist[k].op = "look"
         /\ \E i \in 1..Len(peers) : Eligible(peers[i]) /\ ~peers[i].conn_open) =>
            /\ ~hist[k].raised
            /\ \A i \in 1..Len(peers) :
                  (Eligible(peers[i]) /\ peers[i].conn_open) =>
                      LooksSentTo(k, peers[i].id) = 1
            /\ Persisted(k)

\* C15: on a look-change request the sessions that receive the 0x8F packet
\* are exactly the requester (once) and every other session in the
\* requester's level whose world is loaded; sessions in another level or not
\* loaded receive nothing, and the save is persisted before the first send.
C15_LookRecipients ==
    \A k \in 1..Len(hist) :
        hist[k].op = "look" =>
            /\ LooksSentTo(k, "self") = 1
            /\ \A i \in 1..Len(peers) :
                  (peers[i].id # "self" /\ peers[i].conn_open) =>
                      LooksSentTo(k, peers[i].id) = IF Eligible(peers[i]) THEN 1 ELSE 0
            /\ hist[k].events[1].kind = "write"
            /\ Len(Writes(hist[k].events)) = 1

----------------------------------------------------------------------------
(* Claims about the bit codec *)

\* C16: bit codec round-trip: reading back what was written returns the
\* written value, for fixed-width fields (0 <= v < 2^n, widths 0, 1 and the
\* widest), variable-width unsigned integers and length-prefixed strings
\* whose length fits the length field.
C16_CodecRoundTrip ==
    \A k \in 1..Len(hist) :
        (hist[k].op = "codec" /\ hist[k].read # <<>>) =>
            /\ hist[k].read[1].entity_id = hist[k].args.entity_id
            /\ hist[k].read[1].value = hist[k].args.value
            /\ hist[k].read[1].ok
            /\ hist[k].read[1].text = hist[k].args.text
            /\ hist[k].read[1].rest \in 0..7

\* a payload was read back whose entity id took several groups, whose
\* fixed-width field was the widest with all bits set, and whose string had
\* a two-byte character, all after bits already in the buffer
C16_Witness ==
    /\ hist # <<>>
    /\ hist[1].op = "codec"
    /\ hist[1].read # <<>>
    /\ hist[1].args.lead = <<1, 0, 1>>
    /\ hist[1].args.entity_id >= Pow2(2 * VarGroupBits)
    /\ hist[1].args.width = 24 /\ hist[1].args.value = 16777215
    /\ hist[1].args.text = <<65, 233>>

\* the filled nodes of the selected class of a character
FilledNodes(c) ==
    LET slots == IF c.MasterClass \in DOMAIN c.Mastery THEN c.Mastery[c.MasterClass]
                 ELSE <<>>
    IN  { [nodeIdx |-> s.nodeIdx, points |-> s.points] :
              s \in { x \in Range(slots) : x.filled } }

\* the payloads of the mastery packets sent for the k-th packet
MasterySent(k) ==
    LET IsMastery(e) == e.kind = "send" /\ e.type = 193
    IN  SelectSeq(hist[k].events, IsMastery)

\* C17: the mastery packet sent after a class selection holds, after the
\* entity id, for each of the 27 nodes a flag and for a filled node its index
\* and points - 1 in method_277(i) bits: read back, it gives the entity id and
\* exactly the {nodeIdx, points} of the filled nodes of the selected class,
\* with nothing but the padding of the last byte left over
C17_MasteryRoundTrip ==
    \A k \in 1..Len(hist) :
        Ran(k, "masterclass") =>
            /\ Len(MasterySent(k)) = 1
            /\ PostChar(k).MasterClass = hist[k].args.master_class_id
            /\ LET bits == MasterySent(k)[1].body
                   d == DecodeMastery(bits)
               IN  /\ d.entity_id = hist[k].args.entity_id
                   /\ d.nodes = FilledNodes(PostChar(k))
                   /\ Len(bits) % 8 = 0
                   /\ Len(bits) - d.next \in 0..7
                   /\ \A j \in (d.next + 1)..Len(bits) : bits[j] = 0

\* a class with a node at the cap of the widest field and another filled node
\* was selected in place of another class, and its packet was sent
C17_Witness ==
    \E k \in 1..Len(hist) :
        /\ Ran(k, "masterclass")
        /\ PreChar(k).MasterClass # PostChar(k).MasterClass
        /\ [nodeIdx |-> 27, points |-> 8] \in FilledNodes(PostChar(k))
        /\ [nodeIdx |-> 14, points |-> 1] \in FilledNodes(PostChar(k))
        /\ \E s \in Range(PostChar(k).Mastery[PostChar(k).MasterClass]) : ~s.filled
        /\ Len(MasterySent(k)) = 1


\* the gear-set index at the head of the k-th packet
SetIndex(k) == ReadBits(hist[k].args.bits, 0, const_348)

\* the set named "GearSet <i+1>" with six slots of 0
DefaultSet(i) ==
    [name |-> <<71, 101, 97, 114, 83, 101, 116, 32, 49 + i>>, slots |-> <<0, 0, 0, 0, 0, 0>>]

NameDecodes(k) ==
    ReadBits(hist[k].args.bits, 3, 16) <= RemainingBits(hist[k].args.bits, 19) \div 8

\* the name bytes of the name-gearset packet k
NameBytes(k) ==
    [i \in 1..ReadBits(hist[k].args.bits, 3, 16) |->
        ReadBits(hist[k].args.bits, 19 + 8 * (i - 1), 8)]

\* C19: a name-gearset packet for an existing set i changes the name of
\* gearSets[i] to the name sent and nothing else (slots, other sets, equipped
\* and inventory gear), persists and is echoed as received; for an index that
\* does not exist, or a name shorter than its length field, nothing changes
\* and nothing is persisted or echoed
C19_NameOnly ==
    \A k \in 1..Len(hist) :
        Ran(k, "name_gearset") =>
            LET i == ReadBits(hist[k].args.bits, 0, 3)
                pre == PreChar(k)
            IN  IF i < Len(pre.gearSets) /\ NameDecodes(k)
                THEN /\ PostChar(k) =
                            [pre EXCEPT !.gearSets[i + 1].name = NameBytes(k)]
                     /\ PostChar(k).gearSets[i + 1].slots = pre.gearSets[i + 1].slots
                     /\ Persisted(k)
                     /\ Sends(hist[k].events) = <<SendEv("self", 200, hist[k].args)>>
                ELSE /\ PostDoc(k) = hist[k].pre
                     /\ hist[k].events = <<>>

\* a set was renamed, and a packet for a missing index was dropped
C19_Witness ==
    \E k \in 1..Len(hist), j \in 1..Len(hist) :
        /\ Ran(k, "name_gearset") /\ Ran(j, "name_gearset")
        /\ NameDecodes(k) /\ NameDecodes(j)
        /\ ReadBits(hist[k].args.bits, 0, 3) < Len(PreChar(k).gearSets)
        /\ PostChar(k).gearSets[ReadBits(hist[k].args.bits, 0, 3) + 1].name = <<65>>
        /\ PreChar(k).gearSets[ReadBits(hist[k].args.bits, 0, 3) + 1].name # <<65>>
        /\ ReadBits(hist[j].args.bits, 0, 3) >= Len(PreChar(j).gearSets)
        /\ hist[j].events = <<>>

\* C20: an apply-gearset packet for an existing set i of a character with
\* exactly 6 equipped slots sets gearSets[i].slots to the 6 equipped gear ids
\* in slot order and changes nothing else (equipped and inventory gear, the
\* set's name, the other sets), persists and echoes the request; for a
\* missing set or another number of equipped slots nothing changes and
\* nothing is persisted or echoed
C20_ApplyGearset ==
    \A k \in 1..Len(hist) :
        Ran(k, "apply_gearset") =>
            LET i == SetIndex(k)
                pre == PreChar(k)
            IN  IF i < Len(pre.gearSets) /\ Len(pre.equippedGears) = 6
                THEN /\ PostChar(k) =
                            [pre EXCEPT !.gearSets[i + 1].slots =
                                [n \in 1..6 |-> pre.equippedGears[n].gearID]]
                     /\ PostChar(k).gearSets[i + 1].name = pre.gearSets[i + 1].name
                     /\ PostChar(k).equippedGears = pre.equippedGears
                     /\ PostChar(k).inventoryGears = pre.inventoryGears
                     /\ Persisted(k)
                     /\ Sends(hist[k].events) = <<SendEv("self", 198, hist[k].args)>>
                ELSE /\ PostDoc(k) = hist[k].pre
                     /\ hist[k].events = <<>>

\* gear was equipped and then a set took the ids of the six slots
C20_Witness ==
    \E k \in 1..Len(hist) :
        /\ Ran(k, "apply_gearset")
        /\ k > 1 /\ hist[k - 1].op \in {"equip", "bulk"}
        /\ PreChar(k) # PreChar(k - 1)
        /\ SetIndex(k) < Len(PreChar(k).gearSets)
        /\ Len(PreChar(k).equippedGears) = 6
        /\ PostChar(k).gearSets[SetIndex(k) + 1].slots # <<0, 0, 0, 0, 0, 0>>
        /\ PostChar(k).gearSets[SetIndex(k) + 1].slots # PreChar(k - 1).gearSets[SetIndex(k) + 1].slots

----------------------------------------------------------------------------
(* Claims about the bulk update, runes and dyes, talents and the hotbar *)

\* the gear id the bulk packet k carries for slot j of 1..6, -1 for a slot
\* whose changed flag is 0
FlaggedId(k, j) ==
    LET ups == ParseSlots(hist[k].args.bits).updates
        IsSlot(u) == u.slot = j - 1
    IN  IF FirstIdx(ups, IsSlot) = 0 THEN -1 ELSE ups[FirstIdx(ups, IsSlot)].gear_id

\* C21: a complete bulk equipment update changes exactly the slots whose
\* changed flag is 1: a flagged slot becomes a copy of the first inventory
\* entry with the decoded gear id, or the zero slot when the inventory has
\* none; every unflagged slot (the zero slot where the list had none yet) and
\* the whole inventory are unchanged, nothing else of the character changes,
\* the save is persisted and the raw request is echoed
C21_BulkFrame ==
    \A k \in 1..Len(hist) :
        (Ran(k, "bulk") /\ ParseSlots(hist[k].args.bits).ok) =>
            LET pre == PreChar(k)
                post == PostChar(k)
            IN  /\ Len(post.equippedGears) = 6
                /\ \A j \in 1..6 :
                      post.equippedGears[j] =
                          IF FlaggedId(k, j) # -1
                          THEN IF HasGear(pre.inventoryGears, FlaggedId(k, j))
                               THEN pre.inventoryGears[FindGear(pre.inventoryGears,
                                                                FlaggedId(k, j))]
                               ELSE ZeroGear
                          ELSE IF j <= Len(pre.equippedGears) THEN pre.equippedGears[j]
                          ELSE ZeroGear
                /\ post.inventoryGears = pre.inventoryGears
                /\ post = [pre EXCEPT !.equippedGears = post.equippedGears]
                /\ Persisted(k)
                /\ Sends(hist[k].events) = <<SendEv("self", 48, hist[k].args)>>

\* one complete bulk update put an owned gear into a slot, put the zero slot
\* in place of a gear for an id nobody owns, or left a gear in an unflagged
\* slot next to a changed one; all three have happened
C21_Witness ==
    /\ \E k \in 1..Len(hist), j \in 1..6 :
          /\ Ran(k, "bulk") /\ ParseSlots(hist[k].args.bits).ok
          /\ FlaggedId(k, j) = 3 /\ j <= Len(PreChar(k).equippedGears)
          /\ PreChar(k).equippedGears[j].gearID # 0
          /\ PostChar(k).equippedGears[j] = ZeroGear
    /\ \E k \in 1..Len(hist), j \in 1..6, u \in 1..6 :
          /\ Ran(k, "bulk") /\ ParseSlots(hist[k].args.bits).ok
          /\ FlaggedId(k, j) = 2 /\ PostChar(k).equippedGears[j].gearID = 2
          /\ Len(PreChar(k).equippedGears) = 6
          /\ PreChar(k).equippedGears[j].gearID # 2
          /\ FlaggedId(k, u) = -1 /\ PostChar(k).equippedGears[u].gearID # 0

\* the non-zero gear ids the rune or dye packet k touched
AffectedIds(k) ==
    IF hist[k].op = "rune" THEN {hist[k].args.gear_id} \ {0}
    ELSE LET dyes == hist[k].args.dyes.dyes_by_slot
         IN  { PreChar(k).equippedGears[dyes[d].slot + 1].gearID :
                   d \in { x \in 1..Len(dyes) :
                              dyes[x].slot < Len(PreChar(k).equippedGears) } } \ {0}

\* C22: after a successful rune socket or remove, or a dye application, every
\* equipped slot that holds the affected gear id has the same runes and the
\* same colors as an inventory entry with that id
C22_CopiesInSync ==
    \A k \in 1..Len(hist) :
        ((Ran(k, "rune") \/ Ran(k, "dyes")) /\ Writes(hist[k].events) # <<>>) =>
            \A g \in AffectedIds(k) :
                \E i \in 1..Len(PostChar(k).inventoryGears) :
                    /\ PostChar(k).inventoryGears[i].gearID = g
                    /\ \A j \in 1..Len(PostChar(k).equippedGears) :
                          PostChar(k).equippedGears[j].gearID = g =>
                              /\ PostChar(k).equippedGears[j].runes =
                                     PostChar(k).inventoryGears[i].runes
                              /\ PostChar(k).equippedGears[j].colors =
                                     PostChar(k).inventoryGears[i].colors

\* C23: talent allocation stores exactly 5 values, each in 0..15, value i
\* being bits 4i..4i+3 of the packed integer; bits at positions 20 and above
\* are ignored, so packing the stored values gives back the low 20 bits of
\* the packet; nothing else of the character changes, the save is persisted
\* and no reply is sent
C23_TalentFields ==
    \A k \in 1..Len(hist) :
        Ran(k, "talents") =>
            LET points == PostChar(k).craftTalentPoints
                packed == hist[k].args.packed
            IN  /\ Len(points) = 5
                /\ \A i \in 1..5 :
                      /\ points[i] \in 0..15
                      /\ points[i] = (packed \div Pow2(4 * (i - 1))) % 16
                /\ PackTalents(points) = packed % Pow2(20)
                /\ packed \in {PackTalents(p) : p \in TalentTuples} => points \in TalentTuples
                /\ PostChar(k) = [PreChar(k) EXCEPT !.craftTalentPoints = points]
                /\ Persisted(k)
                /\ Sends(hist[k].events) = <<>>

\* a packet with bits above position 19 stored the largest value next to
\* smaller ones in place of other points
C23_Witness ==
    \E k \in 1..Len(hist) :
        /\ Ran(k, "talents")
        /\ hist[k].args.packed >= Pow2(20)
        /\ PostChar(k).craftTalentPoints = <<15, 0, 0, 0, 8>>
        /\ PreChar(k).craftTalentPoints \notin {<<>>, <<15, 0, 0, 0, 8>>}

\* the skill the hotbar packet k carries for index j (from 0), -1 when the
\* changed bit of j is 0 or the packet ends before it
FlaggedSkill(k, j) ==
    LET ups == ParseHotbar(hist[k].args.bits).updates
        IsIdx(u) == u.idx = j
    IN  IF FirstIdx(ups, IsIdx) = 0 THEN -1 ELSE ups[FirstIdx(ups, IsIdx)].skill_id

\* C24: a hotbar packet changes activeAbilities only at the indices whose
\* changed bit is 1, setting each to the 7-bit skill id that follows; every
\* other existing entry keeps its value, the list never gets shorter and
\* grows no further than the last flagged index, and every entry added that
\* is not flagged is 0; a packet that ends inside a skill id changes nothing
C24_HotbarFrame ==
    \A k \in 1..Len(hist) :
        Ran(k, "hotbar") =>
            LET pre == PreChar(k).activeAbilities
                post == PostChar(k).activeAbilities
                ups == ParseHotbar(hist[k].args.bits).updates
            IN  IF ParseHotbar(hist[k].args.bits).ok
                THEN /\ Len(post) >= Len(pre)
                     /\ \A j \in 1..Len(post) :
                           post[j] = IF FlaggedSkill(k, j - 1) # -1
                                     THEN FlaggedSkill(k, j - 1)
                                     ELSE IF j <= Len(pre) THEN pre[j] ELSE 0
                     /\ \A u \in 1..Len(ups) : ups[u].idx < Len(post)
                     /\ Len(post) > Len(pre) => FlaggedSkill(k, Len(post) - 1) # -1
                     /\ PostChar(k) = [PreChar(k) EXCEPT !.activeAbilities = post]
                ELSE PostChar(k) = PreChar(k)

\* one packet overwrote the first entry of a two-entry hotbar, kept the
\* second, and grew the list with zeros up to a flagged fifth entry
C24_Witness ==
    \E k \in 1..Len(hist) :
        /\ Ran(k, "hotbar")
        /\ PreChar(k).activeAbilities = <<3, 4>>
        /\ PostChar(k).activeAbilities = <<127, 4, 0, 0, 5>>

----------------------------------------------------------------------------
(* Claims about the order of saving and replying *)

\* C25: in every handler invocation each reply, echo or broadcast that is
\* sent comes after a write of the full save made in the same invocation,
\* and the save is not changed after that write; forge speed-up and collect
\* write before their reply, and cancel writes and sends nothing
C25_WriteBeforeSend ==
    \A k \in 1..Len(hist) :
        /\ \A i \in 1..Len(hist[k].events) :
              hist[k].events[i].kind = "send" =>
                  \E j \in 1..(i - 1) :
                      /\ hist[k].events[j].kind = "write"
                      /\ hist[k].events[j].body = PostDoc(k)
        /\ (Ran(k, "speed_up") \/ Ran(k, "collect")) /\ hist[k].events # <<>> =>
              /\ Len(hist[k].events) = 2
              /\ hist[k].events[1].kind = "write"
              /\ hist[k].events[1].body = PostDoc(k)
              /\ hist[k].events[2].kind = "send"
        /\ Ran(k, "cancel") =>
              /\ Len(hist[k].events) = 1
              /\ hist[k].events[1].kind = "write"
              /\ hist[k].events[1].body = PostDoc(k)

\* a forge session was sped up: the save with fewer idols was written and
\* the forge update sent
C25_Witness ==
    \E k \in 1..Len(hist) :
        /\ Ran(k, "speed_up")
        /\ PostChar(k).mammothIdols < PreChar(k).mammothIdols
        /\ Len(hist[k].events) = 2
        /\ hist[k].events[2].kind = "send" /\ hist[k].events[2].type = 205

\* the filled nodes of the tree a character stores for class c
FilledNodesOf(char, c) == FilledNodes([char EXCEPT !.MasterClass = c])

\* C26: selecting mastery class c for an existing character stores
\* MasterClass = c and changes nothing else, writes the save, then sends the
\* 0xC3 reply with (entity id, c) and after it one 0xC1 sync holding the tree
\* stored for class c: 27 absent flags when the character has no tree for c,
\* and not the tree of the class selected before
C26_SelectThenSync ==
    \A k \in 1..Len(hist) :
        Ran(k, "masterclass") =>
            LET c == hist[k].args.master_class_id
                ev == hist[k].events
            IN  /\ PostChar(k) = [PreChar(k) EXCEPT !.MasterClass = c]
                /\ Len(ev) = 3
                /\ ev[1].kind = "write" /\ ev[1].body = PostDoc(k)
                /\ ev[2] = SendEv("self", 195, <<hist[k].args.entity_id, c>>)
                /\ ev[3].kind = "send" /\ ev[3].to = "self" /\ ev[3].type = 193
                /\ DecodeMastery(ev[3].body).nodes = FilledNodesOf(PreChar(k), c)
                /\ c \notin DOMAIN PreChar(k).Mastery =>
                      ev[3].body = PadToByte(write_method_4(hist[k].args.entity_id)
                                                \o [n \in 1..27 |-> 0])
                /\ FilledNodesOf(PreChar(k), PreChar(k).MasterClass)
                        # FilledNodesOf(PreChar(k), c) =>
                      DecodeMastery(ev[3].body).nodes
                          # FilledNodesOf(PreChar(k), PreChar(k).MasterClass)

\* the second class was selected in place of the first, whose tree has
\* other filled nodes, and the tree of the second class was sent
C26_Witness ==
    \E k \in 1..Len(hist) :
        /\ Ran(k, "masterclass")
        /\ PreChar(k).MasterClass = 1 /\ hist[k].args.master_class_id = 2
        /\ FilledNodesOf(PreChar(k), 1) # {}
        /\ FilledNodesOf(PreChar(k), 2) # {}
        /\ FilledNodesOf(PreChar(k), 1) # FilledNodesOf(PreChar(k), 2)
        /\ Len(hist[k].events) = 3
        /\ DecodeMastery(hist[k].events[3].body).nodes = FilledNodesOf(PreChar(k), 2)

----------------------------------------------------------------------------
(* Claims about mission levels and the position tracker *)

\* the words whose presence in a name marks a mission level
MissionWords ==
    {"Mission", "Dungeon", "Arena", "Boss", "Elite", "Challenge", "Raid", "Instance",
     "Tutorial"}

\* the answer for a name: no for the twelve world levels, yes for a name with
\* one of the nine words, otherwise the instanced flag of the level table
MissionAnswer(name) ==
    IF name \in {"CraftTown", "CraftTownTutorial", "BridgeTown", "BridgeTownHard",
                 "NewbieRoad", "NewbieRoadHard", "CemeteryHill", "CemeteryHillHard",
                 "Castle", "CastleHard", "LavaLands", "LavaLandsHard"}
    THEN FALSE
    ELSE IF \E w \in MissionWords : Contains(w, name) THEN TRUE
    ELSE IF name \in DOMAIN LEVEL_CONFIG THEN LEVEL_CONFIG[name][4]
    ELSE FALSE

\* C27: is_mission_level is false for the twelve world levels, otherwise true
\* for a name containing one of the nine words, otherwise the instanced flag of
\* LEVEL_CONFIG and false for a name outside it; BridgeTown, CraftTown,
\* NewbieRoad and CemeteryHill are world levels and TutorialDungeon,
\* BT_Mission1 and LDArena1 are missions
C27_MissionLevels ==
    \A k \in 1..Len(hist) :
        hist[k].op = "is_mission_level" =>
            /\ hist[k].result = MissionAnswer(hist[k].args)
            /\ hist[k].args \in {"BridgeTown", "CraftTown", "NewbieRoad", "CemeteryHill"}
                   => ~hist[k].result
            /\ hist[k].args \in {"TutorialDungeon", "BT_Mission1", "LDArena1"}
                   => hist[k].result

\* an instanced level of the table without any of the words was asked about
C27_Witness ==
    /\ hist # <<>>
    /\ hist[1].op = "is_mission_level"
    /\ hist[1].args \in DOMAIN LEVEL_CONFIG
    /\ hist[1].args \notin world_levels
    /\ ~\E w \in MissionWords : Contains(w, hist[1].args)
    /\ hist[1].result

\* call k of the tracker was a call of op
Called(k, op) == k \in 1..Len(hist) /\ hist[k].op = op

\* the mission entry position a session's character holds, blank while the
\* character has no positionTracking block
EntryOf(s) ==
    IF s.current_char_dict = <<>> THEN BlankEntry
    ELSE IF s.current_char_dict[1].positionTracking = <<>> THEN BlankEntry
    ELSE s.current_char_dict[1].positionTracking[1].missionEntryPosition

\* where the player of a session stands: the entity's coordinates, and the
\* default position while the session has no entity for the player
Standing(s) ==
    IF s.clientEntID \in DOMAIN s.entities
    THEN <<s.entities[s.clientEntID].x, s.entities[s.clientEntID].y,
           s.entities[s.clientEntID].z>>
    ELSE <<36000, 145899, 0>>

\* call k asked to save with a user id, from a level that is no mission, for
\* a target that is one
MayEnter(k) ==
    /\ hist[k].pre.session.user_id # ""
    /\ ~is_mission_level(hist[k].level)
    /\ is_mission_level(hist[k].args.target_level)

\* C28: save_pre_mission_position records the current (x, y, z), the current
\* level and the target only when the session has a user id, the current level
\* is no mission level and the target is one; in every other case the stored
\* mission entry position and mission_positions are unchanged, and a stored
\* entry's level is never a mission level
C28_SaveGuard ==
    /\ \A k \in 1..Len(hist) :
          Called(k, "save_pre_mission_position") =>
              LET pre == hist[k].pre
                  post == hist[k].post
              IN  IF MayEnter(k)
                  THEN LET saved == post.mission_positions[pre.session.user_id]
                           entry == EntryOf(post.session)
                       IN  /\ <<saved.x, saved.y, saved.z>> = Standing(pre.session)
                           /\ saved.level = hist[k].level
                           /\ saved.mission_entered = hist[k].args.target_level
                           /\ pre.session.current_char_dict # <<>> =>
                                  /\ <<entry.x, entry.y, entry.z>> = Standing(pre.session)
                                  /\ entry.level = hist[k].level
                                  /\ entry.missionEntered = hist[k].args.target_level
                  ELSE /\ EntryOf(post.session) = EntryOf(pre.session)
                       /\ post.mission_positions = pre.mission_positions
    /\ \A u \in DOMAIN mission_positions : ~is_mission_level(mission_positions[u].level)
    /\ EntryOf(session).x # None => ~is_mission_level(EntryOf(session).level)

\* a position was saved on the way into a mission, and a later save asked
\* for from inside the mission was refused
C28_Witness ==
    \E j, k \in 1..Len(hist) :
        /\ j < k
        /\ Called(j, "save_pre_mission_position")
        /\ MayEnter(j)
        /\ hist[j].pre.session.current_char_dict # <<>>
        /\ hist[j].pre.session.clientEntID \in DOMAIN hist[j].pre.session.entities
        /\ Called(k, "save_pre_mission_position")
        /\ is_mission_level(hist[k].level)
        /\ is_mission_level(hist[k].args.target_level)

\* every call strictly between j and k moved the player or changed the level
OnlyMoves(j, k) ==
    \A i \in (j + 1)..(k - 1) : hist[i].op \in {"update_player_position", "current_level"}

\* C29: after a mission entry position (x, y, z, L) has been saved,
\* restore_pre_mission_position returns exactly (x, y, z, L) whatever position
\* updates and level changes were made in between, and afterwards the fields
\* of the character's missionEntryPosition are all cleared
C29_RoundTrip ==
    \A j, k \in 1..Len(hist) :
        (/\ j < k
         /\ Called(j, "save_pre_mission_position")
         /\ MayEnter(j)
         /\ Called(k, "restore_pre_mission_position")
         /\ OnlyMoves(j, k)) =>
            /\ hist[k].result = Standing(hist[j].pre.session) \o <<hist[j].level>>
            /\ EntryOf(hist[k].post.session) = BlankEntry

\* a position saved in the character was restored after the player had moved
C29_Witness ==
    \E j, k \in 1..Len(hist) :
        /\ j + 1 < k
        /\ Called(j, "save_pre_mission_position")
        /\ MayEnter(j)
        /\ hist[j].pre.session.current_char_dict # <<>>
        /\ Called(k, "restore_pre_mission_position")
        /\ OnlyMoves(j, k)
        /\ hist[k].result # <<>>
        /\ EntryOf(hist[k].pre.session).x # None
        /\ Standing(hist[k].pre.session) # Standing(hist[j].pre.session)

\* the position a session's character holds under key, blank while the
\* character has no positionTracking block
PositionOf(s, key) ==
    IF s.current_char_dict = <<>> THEN BlankPosition
    ELSE IF s.current_char_dict[1].positionTracking = <<>> THEN BlankPosition
    ELSE s.current_char_dict[1].positionTracking[1][key]

\* C30: update_player_position sets the player entity's x, y, z and the
\* character's currentPosition to (x, y, z, current level), overwrites
\* lastWorldPosition only when the current level is no mission level, and never
\* changes missionEntryPosition
C30_UpdateFrame ==
    \A k \in 1..Len(hist) :
        Called(k, "update_player_position") =>
            LET pre == hist[k].pre.session
                post == hist[k].post.session
                to == <<hist[k].args.x, hist[k].args.y, hist[k].args.z>>
                current == PositionOf(post, "currentPosition")
                last == PositionOf(post, "lastWorldPosition")
            IN  /\ pre.clientEntID \in DOMAIN pre.entities => Standing(post) = to
                /\ pre.current_char_dict # <<>> =>
                       /\ <<current.x, current.y, current.z>> = to
                       /\ current.level = hist[k].level
                       /\ IF is_mission_level(hist[k].level)
                          THEN last = PositionOf(pre, "lastWorldPosition")
                          ELSE /\ <<last.x, last.y, last.z>> = to
                               /\ last.level = hist[k].level
                /\ EntryOf(post) = EntryOf(pre)
                /\ hist[k].post.mission_positions = hist[k].pre.mission_positions

\* the player moved inside a mission while the character held an entry
\* position and a last world position from before
C30_Witness ==
    \E k \in 1..Len(hist) :
        /\ Called(k, "update_player_position")
        /\ is_mission_level(hist[k].level)
        /\ hist[k].pre.session.clientEntID \in DOMAIN hist[k].pre.session.entities
        /\ EntryOf(hist[k].pre.session).x # None
        /\ PositionOf(hist[k].pre.session, "lastWorldPosition").x # None
        /\ PositionOf(hist[k].post.session, "currentPosition")
               # PositionOf(hist[k].post.session, "lastWorldPosition")

----------------------------------------------------------------------------
(* Claims about the states of the forge and the stock of a character *)

\* the session fields of a forge agree with each other
SingleValued(mf) ==
    /\ ~mf.hasSession =>
           mf.primary = 0 /\ mf.secondary = 0 /\ mf.duration = 0 /\ mf.status = 0
    /\ mf.hasSession => mf.status \in {const_286, const_264}
    /\ mf.status = const_264 => mf.duration = 0

\* C31: in every state reached from an idle forge by start, speed-up, collect
\* and cancel requests, hasSession = false implies primary, secondary, duration
\* and status are 0, hasSession = true implies the status is InProgress or
\* Completed, and status Completed implies duration 0
C31_ForgeSingleValued ==
    /\ \A i \in 1..Len(characters) : SingleValued(characters[i].magicForge)
    /\ \A k \in 1..Len(hist) :
          \A i \in 1..Len(hist[k].pre) : SingleValued(hist[k].pre[i].magicForge)

\* a session was started, sped up to Completed, and then cleared
C31_Witness ==
    /\ Len(hist) = 3
    /\ Ran(1, "start_forge") /\ Ran(2, "speed_up") /\ SpeedUpAccepted(2)
    /\ hist[3].op \in {"collect", "cancel"}
    /\ PreChar(3).magicForge.status = const_264
    /\ ~PostChar(3).magicForge.hasSession

\* C32: a charm is granted only from the Completed state: a collect request
\* received while the session is InProgress adds no charm and does not clear
\* the session
C32_CollectOnlyCompleted ==
    \A k \in 1..Len(hist) :
        (/\ Ran(k, "collect")
         /\ PreChar(k).magicForge.hasSession
         /\ PreChar(k).magicForge.status = const_286) =>
            /\ PostChar(k).charms = PreChar(k).charms
            /\ PostChar(k).magicForge.hasSession
            /\ PostChar(k).magicForge.primary = PreChar(k).magicForge.primary

\* C33: a start-forge request received while hasSession is already true
\* deducts no materials or consumables a second time and does not replace the
\* primary id or the status of the session that is open
C33_OneSessionAtATime ==
    \A k \in 1..Len(hist) :
        (Ran(k, "start_forge") /\ PreChar(k).magicForge.hasSession) =>
            /\ PostChar(k).materials = PreChar(k).materials
            /\ PostChar(k).consumables = PreChar(k).consumables
            /\ PostChar(k).magicForge.primary = PreChar(k).magicForge.primary
            /\ PostChar(k).magicForge.status = PreChar(k).magicForge.status

\* the stock of a character holds no negative count
NonNegative(char) ==
    /\ char.mammothIdols >= 0
    /\ \A i \in 1..Len(char.materials) : char.materials[i].count >= 0
    /\ \A i \in 1..Len(char.consumables) : char.consumables[i].count >= 0

\* C34: in every state reached from a save with non-negative counts by forge
\* start, speed-up, collect and cancel requests, mammothIdols >= 0 and every
\* materials and consumables entry has count >= 0
C34_NoNegativeStock ==
    /\ \A i \in 1..Len(characters) : NonNegative(characters[i])
    /\ \A k \in 1..Len(hist) : \A i \in 1..Len(hist[k].pre) : NonNegative(hist[k].pre[i])

\* a start asked for more of a material than was held and for a consumable
\* that had run out, and a speed-up spent the last idols
C34_Witness ==
    \E j, k \in 1..Len(hist) :
        /\ Ran(j, "start_forge")
        /\ \E i \in 1..Len(hist[j].args.pairs) :
              /\ MaterialCount(PreChar(j).materials, hist[j].args.pairs[i].id) > 0
              /\ hist[j].args.pairs[i].count
                     > MaterialCount(PreChar(j).materials, hist[j].args.pairs[i].id)
        /\ \E i \in 1..4 :
              /\ hist[j].args.flags[i] = 1
              /\ ConsumableCount(PreChar(j).consumables, consumable_ids[i]) = 0
        /\ Ran(k, "speed_up")
        /\ SpeedUpAccepted(k)
        /\ hist[k].args.idols > 0
        /\ PostChar(k).mammothIdols = 0

\* every entry of a charm list counts at least one unit and no two entries
\* carry the same id
CharmsWellFormed(charms) ==
    /\ \A i \in 1..Len(charms) : charms[i].count >= 1
    /\ \A i, j \in 1..Len(charms) : charms[i].charmID = charms[j].charmID => i = j

\* C35: starting from a save where every charm entry has count >= 1 and ids
\* are unique, after any sequence of rune socket, rune remove and forge collect
\* requests the charm list holds no entry with count <= 0 and no two entries
\* for the same charmID
C35_CharmsWellFormed ==
    /\ \A i \in 1..Len(characters) : CharmsWellFormed(characters[i].charms)
    /\ \A k \in 1..Len(hist) :
          \A i \in 1..Len(hist[k].pre) : CharmsWellFormed(hist[k].pre[i].charms)

\* a socket took the last unit of a rune and its entry was removed, and a
\* remove or a collect brought an entry for that rune back
C35_Witness ==
    \E j, k \in 1..Len(hist) :
        /\ j < k
        /\ Ran(j, "rune")
        /\ hist[j].args.rune_id = 5
        /\ CharmCount(PreChar(j).charms, 5) = 1
        /\ 5 \notin CharmIds(PostChar(j).charms)
        /\ hist[k].op \in {"rune", "collect"}
        /\ 5 \notin CharmIds(PreChar(k).charms)
        /\ CharmCount(PostChar(k).charms, 5) = 1

----------------------------------------------------------------------------
(* Claims about the sizes of the gear-set and equipped lists *)

\* C36: with a 3-bit set index and starting from at most 8 sets, gearSets
\* holds at most 8 sets after any sequence of create, name and apply gear-set
\* packets, and name and apply never change the number of sets
C36_AtMostEightSets ==
    /\ \A i \in 1..Len(characters) : Len(characters[i].gearSets) <= 8
    /\ \A k \in 1..Len(hist) :
          /\ \A i \in 1..Len(hist[k].pre) : Len(hist[k].pre[i].gearSets) <= 8
          /\ (Ran(k, "name_gearset") \/ Ran(k, "apply_gearset")) =>
                 Len(PostChar(k).gearSets) = Len(PreChar(k).gearSets)

\* the eighth set was created, and a create on eight sets left eight
C36_Witness ==
    \E j, k \in 1..Len(hist) :
        /\ j < k
        /\ Ran(j, "create_gearset")
        /\ Len(PreChar(j).gearSets) = 7
        /\ Len(PostChar(j).gearSets) = 8
        /\ Ran(k, "create_gearset")
        /\ Len(PostChar(k).gearSets) = 8

\* packet k was handled to its end: the save was written and the reply sent
Succeeded(k) ==
    /\ ~hist[k].raised
    /\ Writes(hist[k].events) # <<>>
    /\ Sends(hist[k].events) # <<>>

\* C37: after any successfully handled single-equip, bulk-update or rune
\* packet for an existing character equippedGears has exactly 6 entries
\* whatever its length was before, and no handler makes it longer than 6
C37_SixEquippedSlots ==
    \A k \in 1..Len(hist) :
        /\ ((Ran(k, "equip") \/ Ran(k, "bulk") \/ Ran(k, "rune")) /\ Succeeded(k)) =>
               Len(PostChar(k).equippedGears) = MAX_SLOTS - 1
        /\ hist[k].found =>
               Len(PostChar(k).equippedGears)
                   <= Max(MAX_SLOTS - 1, Len(PreChar(k).equippedGears))

----------------------------------------------------------------------------
(* The position loggers: the callers of start_position_logging and          *)
(* stop_position_logging and the threads they start, step by step           *)

\* the user ids of the sessions that ask for logging; "" is a session that
\* has no user id yet
LoggerUsers == {"", "u1", "u2"}

\* a thread is about to evaluate "while user_id in self.active_sessions",
\* is inside an iteration (display_player_position, then time.sleep), or
\* has left position_logger
LoggerPositions == {"while", "sleep", "done"}

\* threading.Thread(target=position_logger); start()
NewLogger(user_id) == [user_id |-> user_id, pc |-> "while"]

\* del d[key] where the key is present
Without(d, key) == [k \in DOMAIN d \ {key} |-> d[k]]

\* d[key] = value
With(d, key, value) == [k \in DOMAIN d \cup {key} |-> IF k = key THEN value ELSE d[k]]

\* stop_position_logging: the user id leaves active_sessions and the
\* reference of its thread leaves position_loggers; the thread is not joined
stop_position_logging(active, loggers, user_id) ==
    IF user_id = ""
    THEN [active_sessions |-> active, position_loggers |-> loggers]
    ELSE [active_sessions |-> active \ {user_id},
          position_loggers |-> IF user_id \in DOMAIN loggers
                               THEN Without(loggers, user_id)
                               ELSE loggers]

\* the first half of start_position_logging: without a user id the call
\* returns, otherwise it stops the logger the user has
StartLogging ==
    /\ budget > 0
    /\ \E user_id \in LoggerUsers \ starting :
          LET stopped == stop_position_logging(active_sessions, position_loggers,
                                               user_id)
          IN  /\ active_sessions' = stopped.active_sessions
              /\ position_loggers' = stopped.position_loggers
              /\ starting' = IF user_id = "" THEN starting
                             ELSE starting \cup {user_id}
    /\ budget' = budget - 1
    /\ UNCHANGED <<characters, current_character, current_level, peers, disk, hist,
                   file, conns, session, mission_positions, position_file, threads>>

\* the second half of start_position_logging: the session is registered, the
\* thread is created and started, and its reference is kept
SpawnLogger ==
    /\ \E user_id \in starting :
          /\ active_sessions' = active_sessions \cup {user_id}
          /\ threads' = Append(threads, NewLogger(user_id))
          /\ position_loggers' = With(position_loggers, user_id, Len(threads) + 1)
          /\ starting' = starting \ {user_id}
    /\ UNCHANGED <<characters, current_character, current_level, peers, disk, hist,
                   budget, file, conns, session, mission_positions, position_file>>

\* a call of stop_position_logging
StopLogging ==
    /\ budget > 0
    /\ \E user_id \in LoggerUsers :
          LET stopped == stop_position_logging(active_sessions, position_loggers,
                                               user_id)
          IN  /\ active_sessions' = stopped.active_sessions
              /\ position_loggers' = stopped.position_loggers
    /\ budget' = budget - 1
    /\ UNCHANGED <<characters, current_character, current_level, peers, disk, hist,
                   file, conns, session, mission_positions, position_file, threads,
                   starting>>

\* a thread evaluates the condition of its loop: it enters an iteration while
\* its user id is a key of active_sessions and leaves the loop otherwise
LoggerTest ==
    /\ \E t \in DOMAIN threads :
          /\ threads[t].pc = "while"
          /\ threads' = [threads EXCEPT ![t].pc =
                            IF threads[t].user_id \in active_sessions
                            THEN "sleep" ELSE "done"]
    /\ UNCHANGED <<characters, current_character, current_level, peers, disk, hist,
                   budget, file, conns, session, mission_positions, position_file,
                   active_sessions, position_loggers, starting>>

\* time.sleep returns and the thread is back at the condition of its loop
LoggerWake ==
    /\ \E t \in DOMAIN threads :
          /\ threads[t].pc = "sleep"
          /\ threads' = [threads EXCEPT ![t].pc = "while"]
    /\ UNCHANGED <<characters, current_character, current_level, peers, disk, hist,
                   budget, file, conns, session, mission_positions, position_file,
                   active_sessions, position_loggers, starting>>

InitLoggers ==
    /\ characters = <<>>
    /\ current_character = "hero"
    /\ current_level = "CraftTown"
    /\ peers = <<>>
    /\ disk = <<>>
    /\ file = <<>>
    /\ conns = <<>>
    /\ session = <<>>
    /\ mission_positions = <<>>
    /\ position_file = <<>>
    /\ NoLoggers
    /\ hist = <<>>
    /\ budget = LoggerSteps

NextLoggers ==
    StartLogging \/ SpawnLogger \/ StopLogging \/ LoggerTest \/ LoggerWake

SpecLoggers == InitLoggers /\ [][NextLoggers]_vars

----------------------------------------------------------------------------
(* Claims about the position tracker's threads and its saved positions *)

\* C38: at most one logger thread of a user runs its loop, however the calls
\* of start_position_logging and stop_position_logging interleave with the
\* steps of the threads: a thread does not enter another iteration of its
\* loop once a later thread was started for its user
C38_OneLoggerPerUser ==
    [][\A t \in DOMAIN threads :
           (threads[t].pc = "while" /\ threads'[t].pc = "sleep") =>
               ~\E later \in DOMAIN threads :
                   /\ later > t
                   /\ threads[later].user_id = threads[t].user_id]_vars

\* no call strictly between j and k saved a mission entry position
NoSaveBetween(j, k) ==
    \A i \in (j + 1)..(k - 1) : hist[i].op # "save_pre_mission_position"

\* C39: once a saved mission entry position has been returned by
\* restore_pre_mission_position, a second restore with no save in between
\* returns None, for a session with character data and for one without
C39_RestoreConsumes ==
    \A i, j, k \in 1..Len(hist) :
        (/\ i < j
         /\ j < k
         /\ Called(i, "save_pre_mission_position")
         /\ MayEnter(i)
         /\ Called(j, "restore_pre_mission_position")
         /\ hist[j].result # <<>>
         /\ Called(k, "restore_pre_mission_position")
         /\ NoSaveBetween(i, k)) =>
            hist[k].result = <<>>

----------------------------------------------------------------------------
(* Claims about removing a rune *)

\* packet k was a rune-remove packet that named a gear of the equipped list
\* and one of its three rune slots
Removed(k) ==
    /\ Ran(k, "rune")
    /\ hist[k].args.rune_id = 96
    /\ hist[k].args.rune_slot \in 1..3
    /\ FindEquipped(PreChar(k).equippedGears, hist[k].args.gear_id,
                    hist[k].args.gear_tier) # 0

\* C40: a rune-remove packet (rune id 96) for an equipped gear and a rune slot
\* 1..3 sets that rune slot to 0, returns one unit of the rune that was
\* socketed to charms only if that rune was neither 0 nor 96, takes one unit
\* of the remover charm when there is one and goes through when there is
\* none, and leaves the gear's other rune slots and every other equipped
\* gear as they were
C40_RuneRemove ==
    \A k \in 1..Len(hist) :
        Removed(k) =>
            LET pre == PreChar(k)
                post == PostChar(k)
                idx == hist[k].args.rune_slot
                slot == FindEquipped(pre.equippedGears, hist[k].args.gear_id,
                                     hist[k].args.gear_tier)
                old_rune == pre.equippedGears[slot].runes[idx]
                returned(id) == IF id = old_rune /\ old_rune \notin {0, 96} THEN 1 ELSE 0
                taken(id) == IF id = 96 /\ CharmCount(pre.charms, 96) > 0 THEN 1 ELSE 0
            IN  /\ Len(post.equippedGears) = Len(pre.equippedGears)
                /\ post.equippedGears[slot].runes[idx] = 0
                /\ \A id \in CharmIds(pre.charms) \cup CharmIds(post.charms)
                                \cup {old_rune, 96} :
                       CharmCount(post.charms, id)
                           = CharmCount(pre.charms, id) + returned(id) - taken(id)
                /\ \A i \in (1..3) \ {idx} :
                       post.equippedGears[slot].runes[i] = pre.equippedGears[slot].runes[i]
                /\ \A s \in (1..Len(pre.equippedGears)) \ {slot} :
                       post.equippedGears[s] = pre.equippedGears[s]

====
